---- MODULE Spec2Model ----
(***************************************************************************)
(* State-machine model of the solver core of libnano: solver_t::minimize,  *)
(* solver_t::done / solver_t::log, the outer loops of the ellipsoid,       *)
(* bundle (FPBA) and gradient-sampling solvers, the line-search selection  *)
(* of a solver and the solver state's update_if_better.                    *)
(*                                                                         *)
(* Numbers.  Scalars are integers on a fixed-point grid; the three         *)
(* non-finite IEEE values are the sentinels NaN, PInf and NInf, and every  *)
(* comparison and product goes through Lt / IsFinite / GHG so that a NaN   *)
(* compares false as it does in the C++ code.  All functions are           *)
(* one-dimensional (function.size() = 1), which is the case where the      *)
(* ellipsoid method is a bisection and where a cutting-plane model and a   *)
(* minimum-norm gradient are exact on integers.                            *)
(***************************************************************************)
EXTENDS Integers, Sequences, FiniteSets, TLC

\* ------------------------------------------------------------------ bounds
\* solver::max_evals, scaled down (the parameter's domain is [10, 1e9]).
MaxEvals == 6

\* solver::gs::lsearch_max_iters, scaled down (the parameter's domain is (0, 100]).
LsearchMaxIters == 2

\* lsearchk::max_iterations, scaled down (the parameter's domain is [1, 1000]).
LsearchkMaxIterations == 2

\* The number of constraints registered on one function.
MaxConstraints == 3

\* solver::augmented::max_outer_iters and solver::penalty::max_outer_iters: the
\* outer iterations of a constrained solve
MaxOuterIters == 2

\* solver::sgm::patience, scaled down (the parameter's domain is [10, 1e+6]).
SgmPatience == 2

\* ----------------------------------------------------------------- scalars
NaN == 2100000000
PInf == 2000000000
NInf == -2000000000

\* std::numeric_limits<scalar_t>::lowest(): finite, below every value of the model
Lowest == -1900000000

\* std::numeric_limits<scalar_t>::epsilon(): below one grid unit
MachineEps == 1

\* std::isfinite
IsFinite(v) == v # NaN /\ v # PInf /\ v # NInf

\* IEEE a < b: false as soon as one side is NaN
Lt(a, b) == a # NaN /\ b # NaN /\ a < b

\* IEEE a <= b
Le(a, b) == a # NaN /\ b # NaN /\ a <= b

\* IEEE a + b
Plus(a, b) ==
    IF a = NaN \/ b = NaN THEN NaN
    ELSE IF ~IsFinite(a) THEN (IF ~IsFinite(b) /\ b # a THEN NaN ELSE a)
    ELSE IF ~IsFinite(b) THEN b
    ELSE a + b

\* IEEE a - b
Minus(a, b) == Plus(a, IF b = NaN THEN NaN ELSE -b)

\* IEEE a * b
Times(a, b) ==
    IF a = NaN \/ b = NaN THEN NaN
    ELSE IF IsFinite(a) /\ IsFinite(b) THEN a * b
    ELSE IF a = 0 \/ b = 0 THEN NaN
    ELSE IF (a < 0) = (b < 0) THEN PInf ELSE NInf

\* std::max(a, b): (a < b) ? b : a, so a NaN second argument is dropped
StdMax(a, b) == IF Lt(a, b) THEN b ELSE a

Abs(v) == IF v < 0 THEN -v ELSE v

Sign(v) == IF v < 0 THEN -1 ELSE IF v > 0 THEN 1 ELSE 0

\* --------------------------------------------------------------- functions
\* The initial shape H = R * R of the ellipsoid, in grid units: a power of
\* two large enough to be halved once per evaluation without leaving the grid.
H0 == 2 ^ MaxEvals

\* The unit of the gradients: a power of two, so that a step t * g with
\* t = gamma^i, gamma = 1/2, stays on the grid.
GUnit == 2 ^ LsearchMaxIters

\* "barrier" is finite up to Edge and NaN beyond it (a logarithm's domain).
Edge == H0

Functions == {"abs", "sphere", "barrier", "cusp"}

\* The functions of the line-search solves: also a hinge with a steep and a
\* gentle side, and a logarithm that is -inf at the edge of its domain.
DescentFunctions == Functions \cup {"hinge", "log"}

\* function_t::size() of every function of the family
FunctionSize(f) ==
    CASE f \in {"sphere2", "cubic", "shifted", "rounded"} -> 2 [] f = "sphere3" -> 3 [] OTHER -> 1

\* do_vgrad at a finite point: the value
Fval(f, x) ==
    CASE f = "abs" -> GUnit * Abs(x)
      [] f = "sphere" -> GUnit * x * x
      [] f = "barrier" -> IF x <= Edge THEN -GUnit * x ELSE NaN
      [] f = "cusp" -> GUnit * Abs(x)
      [] f = "hinge" -> IF x < 0 THEN -4 * GUnit * x ELSE GUnit * x
      [] f = "log" -> IF x < Edge THEN -GUnit * x ELSE IF x = Edge THEN NInf ELSE NaN

\* do_vgrad at a finite point: the (sub-)gradient; "cusp" has an infinite
\* slope at its minimum
Gval(f, x) ==
    CASE f = "abs" -> GUnit * Sign(x)
      [] f = "sphere" -> 2 * GUnit * x
      [] f = "barrier" -> IF x <= Edge THEN -GUnit ELSE NaN
      [] f = "cusp" -> IF x = 0 THEN PInf ELSE GUnit * Sign(x)
      [] f = "hinge" -> IF x < 0 THEN -4 * GUnit ELSE IF x = 0 THEN 0 ELSE GUnit
      [] f = "log" -> IF x < Edge THEN -GUnit ELSE IF x = Edge THEN NInf ELSE NaN

\* function_t::vgrad(x): the value, NaN at a point that is not finite
ValueAt(f, x) == IF IsFinite(x) THEN Fval(f, x) ELSE NaN

\* function_t::vgrad(x, gx): the gradient, NaN at a point that is not finite
GradAt(f, x) == IF IsFinite(x) THEN Gval(f, x) ELSE NaN

\* ------------------------------------------------------------ solver state
\* solver_state_t{function, x0}: one value+gradient evaluation at x0.
MakeState(f, x0) ==
    [x |-> x0, f |-> ValueAt(f, x0), g |-> GradAt(f, x0), status |-> "max_iters",
     fcalls |-> 0, gcalls |-> 0, iterations |-> 0, d |-> 0, t |-> 0]

\* solver_state_t::valid / operator bool: f, t, x and g are finite
StateValid(st) == IsFinite(st.f) /\ IsFinite(st.t) /\ IsFinite(st.x) /\ IsFinite(st.g)

\* An acceptance test that takes a candidate that is only as good.
UpdateIfBetterResultOnTie(st, f) == IsFinite(f) /\ Le(f, st.f)

\* The value update_if_better returns: the candidate is finite and strictly better.
UpdateIfBetterResult(st, f) == IsFinite(f) /\ Lt(f, st.f)

\* solver_state_t::update_if_better(x, fx)
UpdateIfBetterAt(st, x, f) ==
    IF UpdateIfBetterResult(st, f)
    THEN [st EXCEPT !.x = x, !.f = f]
    ELSE st

\* solver_state_t::update_if_better(x, gx, fx)
UpdateIfBetter(st, x, g, f) ==
    IF UpdateIfBetterResult(st, f)
    THEN [UpdateIfBetterAt(st, x, f) EXCEPT !.g = g]
    ELSE st

\* solver_state_t::update(x): evaluates the function at x (value and
\* gradient) and records the function's counters, fc and gc after the call.
StateUpdate(st, f, x, fc, gc) ==
    [st EXCEPT !.x = x, !.f = ValueAt(f, x), !.g = GradAt(f, x), !.fcalls = fc, !.gcalls = gc]

\* ------------------------------------------------------------------ state
VARIABLES
    fn,          \* the function_t object handed to minimize
    fcalls,      \* function_t::m_fcalls
    gcalls,      \* function_t::m_gcalls
    solver,      \* the solver whose minimize is running (or ran last)
    epsilon,     \* solver::epsilon, as the square of the tolerance in grid units
    has_logger,  \* whether solver_t::m_logger is set
    pc,          \* "idle" | "loop": the position of do_minimize
    state,       \* the solver_state_t of the running (or last) solve
    loc,         \* the locals of do_minimize
    raised,      \* whether the last call raised an error to its caller
    hist,        \* what the last solve did: the arguments of its last done(), counts
    last,        \* the last call made on the interface, with its arguments
    ret,         \* the value the last call returned, where it returns one
    m_lsearch0_id,  \* solver_t::m_lsearch0_id
    m_lsearch0,     \* solver_t::m_lsearch0, the object it owns
    m_lsearchk_id,  \* solver_t::m_lsearchk_id
    m_lsearchk,     \* solver_t::m_lsearchk, the object it owns
    tolerance,      \* the parameter solver::tolerance, (c1, c2) in units of 1e-4
    bstate,         \* the state update_if_better_constrained is called on
    outer,          \* the locals of the outer loop of a constrained solver
    constraints,    \* function_t::m_constraints
    threads,        \* the solves running on one solver, one per calling thread
    registry        \* the static factories behind all(), with their once flags

\* The configuration of the line-search of a solver.
settings == <<m_lsearch0_id, m_lsearch0, m_lsearchk_id, m_lsearchk, tolerance>>

\* What a solve reads and writes.
solve == <<fn, fcalls, gcalls, solver, epsilon, has_logger, pc, loc, hist>>

\* What the solves of one unconstrained solver leave alone.
extra == <<bstate, outer, constraints, threads, registry>>

vars == <<fn, fcalls, gcalls, solver, epsilon, has_logger, pc, state, loc, raised, hist,
          last, ret, m_lsearch0_id, m_lsearch0, m_lsearchk_id, m_lsearchk, tolerance,
          bstate, outer, constraints, threads, registry>>

\* solver::epsilon squared: a tight tolerance and a loose one (any positive
\* value is in the parameter's domain once the gradient's unit is chosen).
Epsilons == {1, GUnit * GUnit * H0}

SolverIds == {"ellipsoid", "fpba1", "gs"}

\* The initial points handed to minimize: vectors of 0, 1 or 2 dimensions;
\* "barrier" is also started outside its domain.
StartsOf(f) ==
    IF f = "barrier" THEN {0, 7, Edge + 1}
    ELSE IF f = "log" THEN {Edge - GUnit, Edge - 2, Edge - 1}
    ELSE {-5, 0, 1, 3}

X0Values == StartsOf(fn)

X0s == {<<v>> : v \in X0Values} \cup {<< >>, <<0, 0>>}

NoLocals == [x |-> 0, g |-> 0, f |-> 0, H |-> 0]

\* solver::gs::epsilon0 and solver::gs::miu0 in grid units; theta_epsilon and
\* theta_miu are 1/2, so that epsilonk = GsEpsilon0 / 2^shift exactly.
GsEpsilon0 == 2

GsMiu0 == 1

\* ------------------------------------------------- line-search registries
\* The identifiers registered by lsearchk_t::all()
LsearchkIds == {"fletcher", "backtrack", "cgdescent", "lemarechal", "morethuente"}

\* The identifiers registered by lsearch0_t::all()
Lsearch0Ids == {"constant", "quadratic", "cgdescent"}

\* The identifiers the configuration calls are made with.
LsearchIds == LsearchkIds \cup Lsearch0Ids \cup {"invalid-lsearch0-id", "invalid-lsearchk-id"}

\* An empty owning pointer.
Null == [type |-> "null"]

\* factory_t::get(id): a fresh object of the registered type, null if id is unknown
FactoryGet(ids, id) == IF id \in ids THEN [type |-> id, prevf |-> 0, prevdg |-> 0] ELSE Null

\* The value 1 and the values of (c1, c2) that are assigned, in units of 1e-4.
One == 10000

ToleranceValues == {-1000, 0, 1, 1000, 2000, 9000, One, 11000}

NoHist ==
    [outer |-> 0, logcalls |-> 0, dones |-> 0, iter_ok |-> TRUE, converged |-> FALSE,
     valid |-> TRUE, logret |-> TRUE, exit |-> "none", f0 |-> 0, cleared |-> FALSE,
     logged |-> FALSE, ls |-> [called |-> FALSE], gs |-> [went_on |-> FALSE],
     fpba |-> [went_on |-> FALSE, nulls |-> 0],
     ellipsoid |-> [moved |-> FALSE]]

NoCall == [op |-> "none", arg |-> << >>]

\* Nothing constrained, no constraint, no thread in a solve, nothing registered.
InitExtra ==
    /\ bstate = [x |-> 0]
    /\ outer = [pc |-> "idle"]
    /\ constraints = << >>
    /\ threads = << >>
    /\ registry = << >>

Init ==
    /\ fn \in Functions
    /\ fcalls = 0
    /\ gcalls = 0
    /\ solver = "ellipsoid"
    /\ epsilon = 1
    /\ has_logger = FALSE
    /\ pc = "idle"
    /\ state = MakeState(fn, 0)
    /\ loc = NoLocals
    /\ raised = FALSE
    /\ hist = NoHist
    /\ last = NoCall
    /\ ret = FALSE
    /\ m_lsearch0_id = "quadratic"
    /\ m_lsearch0 = FactoryGet(Lsearch0Ids, "quadratic")
    /\ m_lsearchk_id = "morethuente"
    /\ m_lsearchk = FactoryGet(LsearchkIds, "morethuente")
    /\ tolerance = <<1, 1000>>
    /\ InitExtra

\* ----------------------------------------------------------- solver_t::log
\* The value log() returns: the logger's answer, true without a logger.
LogResult(hl, answer) == IF hl THEN answer ELSE TRUE

\* The state after log(): one more iteration recorded.
LogState(st) == [st EXCEPT !.iterations = @ + 1]

\* ---------------------------------------------------------- solver_t::done
\* done() marking the state stopped whatever the logger answers.
DoneStatusStoppedAnyway(st, step_ok, converged, go_on) ==
    IF converged \/ ~step_ok
    THEN (IF converged THEN "converged" ELSE "failed")
    ELSE "stopped"

\* The status done() leaves in the state, given step_ok = iter_ok && state.
DoneStatus(st, step_ok, converged, go_on) ==
    IF converged \/ ~step_ok
    THEN (IF converged THEN "converged" ELSE "failed")
    ELSE IF ~go_on THEN "stopped" ELSE st.status

\* done() going on after the logger asked to stop.
DoneStopsDeafToLogger(step_ok, converged, go_on) == converged \/ ~step_ok

\* Whether done() returns true (the outer loop breaks).
DoneStops(step_ok, converged, go_on) == converged \/ ~step_ok \/ ~go_on

\* The state after done(function, state, iter_ok, converged) with the function's
\* counters at fc, gc; answer is what the logger returns if it is consulted.
DoneState(st, fc, gc, iter_ok, converged, hl, answer) ==
    LET synced == [st EXCEPT !.fcalls = fc, !.gcalls = gc]
        step_ok == iter_ok /\ StateValid(synced)
    IN  LogState([synced EXCEPT !.status =
                    DoneStatus(synced, step_ok, converged, LogResult(hl, answer))])

\* The record kept of a call to done().
DoneHist(h, st, iter_ok, converged, hl, answer) ==
    [h EXCEPT !.dones = @ + 1,
              !.logcalls = IF hl THEN @ + 1 ELSE @,
              !.iter_ok = iter_ok,
              !.converged = converged,
              !.valid = StateValid(st),
              !.logret = LogResult(hl, answer),
              !.exit = IF DoneStops(iter_ok /\ StateValid(st), converged, LogResult(hl, answer))
                       THEN "done" ELSE "none"]

\* The position of do_minimize after done(): the loop again, or back to the caller.
PcAfterDone(st, iter_ok, converged, hl, answer) ==
    IF DoneStops(iter_ok /\ StateValid(st), converged, LogResult(hl, answer))
    THEN "idle" ELSE "loop"

\* The answers a logger may give when consulted.
Answers == IF has_logger THEN BOOLEAN ELSE {TRUE}

\* ------------------------------------------------------ solver configuration
\* solver_t::logger: sets or clears the logging callback.
Logger(l) ==
    /\ pc = "idle"
    /\ has_logger' = l
    /\ raised' = FALSE
    /\ last' = [op |-> "logger", arg |-> <<l>>]
    /\ UNCHANGED <<fn, fcalls, gcalls, solver, epsilon, pc, state, loc, hist, ret>>
    /\ UNCHANGED settings
    /\ UNCHANGED extra

\* parameter("solver::epsilon") = e
SetEpsilon(e) ==
    /\ pc = "idle"
    /\ epsilon' = e
    /\ raised' = FALSE
    /\ last' = [op |-> "epsilon", arg |-> <<e>>]
    /\ UNCHANGED <<fn, fcalls, gcalls, solver, has_logger, pc, state, loc, hist, ret>>
    /\ UNCHANGED settings
    /\ UNCHANGED extra

\* ------------------------------------------------------ solver_t::make_lsearch
\* A solve that works on the objects registered on the solver.
MakeLsearchShared == "registered"

\* make_lsearch(): the solve works on clones of the registered objects
MakeLsearch == "clone"

\* -------------------------------------------------------- solver_t::minimize
\* The call being made repeats the call before it: the same solver, function
\* and x0, nothing configured in between.
Repeats(s, st) ==
    /\ last = [op |-> "minimize", arg |-> <<st.x>>]
    /\ ~raised
    /\ solver = s
    /\ "trace" \in DOMAIN loc

\* The locals of do_minimize at the head of its loop; a line-search solve
\* also keeps the trace of the call it repeats, for comparison.
InitLocals(s, st) ==
    CASE s = "ellipsoid" -> [x |-> st.x, g |-> st.g, f |-> st.f, H |-> H0]
      [] s = "fpba1" -> [x |-> st.x, y |-> st.x, fx |-> st.f, serious |-> 0,
                         points |-> <<[f |-> st.f, g |-> st.g, gdotz |-> Times(st.g, st.x)]>>]
      [] s = "gs" -> [miu_shift |-> 0, eps_shift |-> 0]
      [] s = "sgm" -> [x |-> st.x, g |-> st.g, stale |-> 0, iteration |-> 0]
      [] s = "gd" -> [started |-> FALSE, lsearch |-> MakeLsearch, lsearch0 |-> m_lsearch0,
                      trace |-> << >>, repeat |-> Repeats(s, st),
                      before |-> IF Repeats(s, st) THEN [trace |-> loc.trace, state |-> state]
                                 ELSE [trace |-> << >>, state |-> st]]

\* A size check that lets a longer x0 through.
MinimizeRejectsShorter(x0) == FunctionSize(fn) > Len(x0)

\* critical(function.size() != x0.size(), ...): the call throws.
MinimizeRejects(x0) == FunctionSize(fn) # Len(x0)

\* minimize(function, x0) with an incompatible x0: a hard error, nothing else.
MinimizeError(s, x0) ==
    /\ pc = "idle"
    /\ MinimizeRejects(x0)
    /\ raised' = TRUE
    /\ last' = [op |-> "minimize", arg |-> x0]
    /\ UNCHANGED <<fn, fcalls, gcalls, solver, epsilon, has_logger, pc, state, loc, hist, ret>>
    /\ UNCHANGED settings
    /\ UNCHANGED extra

\* A counter that is left as it is.
KeepStatistics(c) == c

\* function.clear_statistics(): a counter after the call
ClearStatistics(c) == 0

\* minimize(function, x0): clears the counters, then do_minimize builds the
\* initial state (one value and one gradient evaluation) and enters its loop.
Minimize(s, x0) ==
    /\ pc = "idle"
    /\ ~MinimizeRejects(x0)
    /\ raised' = FALSE
    /\ solver' = s
    /\ fcalls' = ClearStatistics(fcalls) + 1
    /\ gcalls' = ClearStatistics(gcalls) + 1
    /\ state' = MakeState(fn, x0[1])
    /\ loc' = InitLocals(s, state')
    /\ hist' = [NoHist EXCEPT !.f0 = ValueAt(fn, x0[1]), !.cleared = TRUE,
                               !.logged = has_logger]
    /\ pc' = "loop"
    /\ last' = [op |-> "minimize", arg |-> x0]
    /\ UNCHANGED <<fn, epsilon, has_logger, ret>>
    /\ UNCHANGED settings
    /\ UNCHANGED extra

\* ------------------------------------------ solver_ellipsoid_t::do_minimize
\* g.dot(H * g) for one dimension
GHG(g, H) == Times(g, Times(H, g))

\* A guard that is off by one.
EllipsoidBudgetOffByOne == fcalls <= MaxEvals

\* The loop's guard: function.fcalls() < max_evals
EllipsoidBudget == fcalls < MaxEvals

\* The loop ends because the budget is exhausted.
EllipsoidExit ==
    /\ pc = "loop"
    /\ solver = "ellipsoid"
    /\ ~EllipsoidBudget
    /\ pc' = "idle"
    /\ hist' = [hist EXCEPT !.exit = "budget"]
    /\ UNCHANGED <<fn, fcalls, gcalls, solver, epsilon, has_logger, state, loc, raised, last, ret>>
    /\ UNCHANGED settings
    /\ UNCHANGED extra

\* gHg below machine precision: converged without moving.
EllipsoidStationary(answer) ==
    /\ pc = "loop"
    /\ solver = "ellipsoid"
    /\ EllipsoidBudget
    /\ Lt(GHG(loc.g, loc.H), MachineEps)
    /\ state' = DoneState(state, fcalls, gcalls, TRUE, TRUE, has_logger, answer)
    /\ hist' = DoneHist([hist EXCEPT !.outer = @ + 1], state, TRUE, TRUE, has_logger, answer)
    /\ pc' = "idle"
    /\ UNCHANGED <<fn, fcalls, gcalls, solver, epsilon, has_logger, loc, raised, last, ret>>
    /\ UNCHANGED settings
    /\ UNCHANGED extra

\* The convergence test of an iteration: sqrt(gHg) < epsilon, with the gHg
\* computed at the head of the iteration.
EllipsoidConverged(gHg) == Lt(gHg, epsilon)

\* A move along the gradient.
EllipsoidMoveAlong(x, g, H) == x + H * (IF Lt(g, 0) THEN -1 ELSE 1)

\* What an iteration leaves on record: the point, gradient and shape it
\* started with and the outcome of its convergence test.
EllipsoidRecord(l, converged) ==
    [moved |-> TRUE, x |-> l.x, g |-> l.g, H |-> l.H, converged |-> converged]

\* The point the bisection moves to: x + H * (g < 0 ? +1 : -1)
EllipsoidMove(x, g, H) == x + H * (IF Lt(g, 0) THEN 1 ELSE -1)

\* One iteration of the one-dimensional ellipsoid method (bisection).
EllipsoidStep(answer) ==
    /\ pc = "loop"
    /\ solver = "ellipsoid"
    /\ EllipsoidBudget
    /\ ~Lt(GHG(loc.g, loc.H), MachineEps)
    /\ LET gHg == GHG(loc.g, loc.H)
           x1 == EllipsoidMove(loc.x, loc.g, loc.H)
           f1 == ValueAt(fn, x1)
           g1 == GradAt(fn, x1)
           better == UpdateIfBetter(state, x1, g1, f1)
           iter_ok == IsFinite(f1)
           converged == EllipsoidConverged(gHg)
       IN  /\ loc' = [x |-> x1, g |-> g1, f |-> f1, H |-> loc.H \div 2]
           /\ fcalls' = fcalls + 1
           /\ gcalls' = gcalls + 1
           /\ state' = DoneState(better, fcalls', gcalls', iter_ok, converged, has_logger, answer)
           /\ hist' = [DoneHist([hist EXCEPT !.outer = @ + 1], better, iter_ok, converged,
                                has_logger, answer)
                          EXCEPT !.ellipsoid = EllipsoidRecord(loc, converged)]
           /\ pc' = PcAfterDone(better, iter_ok, converged, has_logger, answer)
    /\ UNCHANGED <<fn, solver, epsilon, has_logger, raised, last, ret>>
    /\ UNCHANGED settings
    /\ UNCHANGED extra

\* --------------------------------------------- base_solver_fpba_t::do_minimize
\* bundle_t::value(x): the cutting-plane model, the maximum of the planes at x
RECURSIVE BundleValueFrom(_, _, _)
BundleValueFrom(points, x, value) ==
    IF points = << >> THEN value
    ELSE BundleValueFrom(Tail(points), x,
            StdMax(value, Minus(Plus(Head(points).f, Times(Head(points).g, x)),
                                Head(points).gdotz)))

BundleValue(points, x) == BundleValueFrom(points, x, Lowest)

\* A bundle that takes no plane.
BundleKeep(points, z, fz, gz) == points

\* bundle_t::append(z, fz, gz)
BundleAppend(points, z, fz, gz) ==
    Append(points, [f |-> fz, g |-> gz, gdotz |-> Times(gz, z)])

\* Whether every plane of the bundle is finite.
BundleFinite(points) ==
    \A i \in 1..Len(points) :
        IsFinite(points[i].f) /\ IsFinite(points[i].g) /\ IsFinite(points[i].gdotz)

\* Twice the proximal objective for miu = 1: (z - x)^2 + 2 * model(z)
ProximalObjective(points, x, z) == (z - x) * (z - x) + 2 * BundleValue(points, z)

\* The largest and the smallest slope of the bundle.
RECURSIVE MaxSlope(_)
MaxSlope(points) ==
    IF Len(points) = 1 THEN Head(points).g
    ELSE LET m == MaxSlope(Tail(points))
         IN  IF Head(points).g > m THEN Head(points).g ELSE m

RECURSIVE MinSlope(_)
MinSlope(points) ==
    IF Len(points) = 1 THEN Head(points).g
    ELSE LET m == MinSlope(Tail(points))
         IN  IF Head(points).g < m THEN Head(points).g ELSE m

\* bundle_t::proximal(x, miu, z): the points the quadratic program may return,
\* the grid minimizers of the proximal objective. The minimizer is x - g for a
\* convex combination g of the slopes, and the objective is convex, so a grid
\* point no worse than its two neighbours is a minimizer. With a plane that
\* is not finite the program is ill-defined: it returns its start or garbage.
Proximal(points, x) ==
    IF BundleFinite(points) /\ IsFinite(x)
    THEN {z \in (x - MaxSlope(points))..(x - MinSlope(points)) :
             /\ ProximalObjective(points, x, z) <= ProximalObjective(points, x, z - 1)
             /\ ProximalObjective(points, x, z) <= ProximalObjective(points, x, z + 1)}
    ELSE {x, NaN}

\* The loop's guard: function.fcalls() + function.gcalls() < max_evals
FpbaBudget == fcalls + gcalls < MaxEvals

\* The convergence test: fx - bz < epsilon
FpbaConverged(fx, bz) == Lt(Minus(fx, bz), epsilon)

\* The descent test of a serious step, for sigma = 1/2:
\* fz - bz <= (1 - sigma) * (fx - bz)
FpbaSerious(fx, fz, bz) == Le(Times(2, Minus(fz, bz)), Minus(fx, bz))

\* The points x = z + ak * (z - y) may be rounded to: ak is 0 at the first
\* serious step and in (0, 1) afterwards (sequence1_t, bk = 0).
FpbaExtrapolate(serious, z, y) ==
    IF serious = 0 \/ ~IsFinite(y) THEN {z}
    ELSE IF z <= 2 * z - y THEN z..(2 * z - y) ELSE (2 * z - y)..z

\* What an iteration that went on leaves on record: the proximal point with
\* its value, gradient and model value, the locals it started with, and the
\* null steps of the solve so far.
FpbaRecord(l, z, fz, gz, bz, nulls) ==
    [went_on |-> TRUE, z |-> z, fz |-> fz, gz |-> gz, bz |-> bz,
     x |-> l.x, y |-> l.y, fx |-> l.fx, points |-> l.points, serious |-> l.serious,
     nulls |-> nulls]

\* The loop ends because the budget is exhausted.
FpbaExit ==
    /\ pc = "loop"
    /\ solver = "fpba1"
    /\ ~FpbaBudget
    /\ pc' = "idle"
    /\ hist' = [hist EXCEPT !.exit = "budget"]
    /\ UNCHANGED <<fn, fcalls, gcalls, solver, epsilon, has_logger, state, loc, raised, last, ret>>
    /\ UNCHANGED settings
    /\ UNCHANGED extra

\* One iteration of the bundle method: the proximal point, the convergence
\* test, then a serious step (one more value evaluation) or a null step.
FpbaStep(answer) ==
    /\ pc = "loop"
    /\ solver = "fpba1"
    /\ FpbaBudget
    /\ \E z \in Proximal(loc.points, loc.x) :
       LET fz == ValueAt(fn, z)
           gz == GradAt(fn, z)
           bz == BundleValue(loc.points, z)
           better == UpdateIfBetter(state, z, gz, fz)
           iter_ok == IsFinite(fz) /\ IsFinite(z) /\ IsFinite(gz)
           converged == FpbaConverged(loc.fx, bz)
           stops == DoneStops(iter_ok /\ StateValid(better), converged,
                              LogResult(has_logger, answer))
       IN  /\ state' = DoneState(better, fcalls + 1, gcalls + 1, iter_ok, converged,
                                 has_logger, answer)
           /\ hist' = [DoneHist([hist EXCEPT !.outer = @ + 1], better, iter_ok, converged,
                                has_logger, answer)
                          EXCEPT !.fpba =
                            IF stops THEN [went_on |-> FALSE, nulls |-> hist.fpba.nulls]
                            ELSE FpbaRecord(loc, z, fz, gz, bz,
                                            IF FpbaSerious(loc.fx, fz, bz)
                                            THEN hist.fpba.nulls ELSE hist.fpba.nulls + 1)]
           /\ pc' = PcAfterDone(better, iter_ok, converged, has_logger, answer)
           /\ gcalls' = gcalls + 1
           /\ IF stops
              THEN /\ fcalls' = fcalls + 1
                   /\ loc' = loc
              ELSE IF FpbaSerious(loc.fx, fz, bz)
              THEN /\ fcalls' = fcalls + 2
                   /\ \E x1 \in FpbaExtrapolate(loc.serious, z, loc.y) :
                        loc' = [loc EXCEPT !.x = x1, !.y = z, !.fx = ValueAt(fn, x1),
                                           !.serious = @ + 1]
              ELSE /\ fcalls' = fcalls + 1
                   /\ loc' = [loc EXCEPT !.points = BundleAppend(@, z, fz, gz)]
    /\ UNCHANGED <<fn, solver, epsilon, has_logger, raised, last, ret>>
    /\ UNCHANGED settings
    /\ UNCHANGED extra

\* ------------------------------------------------ solver_gs_t::do_minimize
\* The loop's guard: function.fcalls() + function.gcalls() < max_evals
GsBudget == fcalls + gcalls < MaxEvals

\* sample_from_ball: the offsets of a sample from the ball of radius epsilonk
GsOffsets(eps_shift) == {d \in -1..1 : Abs(d) * 2 ^ eps_shift < GsEpsilon0}

\* The stabilized gradient: the element of smallest norm in the convex hull of
\* the sampled gradients and the gradient at the current point.
GsStabilized(gs) ==
    IF \E g \in gs : ~IsFinite(g) THEN NaN
    ELSE IF (\E g \in gs : g <= 0) /\ (\E g \in gs : g >= 0) THEN 0
    ELSE CHOOSE g \in gs : \A h \in gs : Abs(g) <= Abs(h)

\* iter_ok: g.all_finite() && epsilonk > machine epsilon
GsIterOk(g, eps_shift) == IsFinite(g) /\ GsEpsilon0 > MachineEps * 2 ^ eps_shift

\* converged: epsilonk < epsilon
GsConverged(eps_shift) == GsEpsilon0 < epsilon * 2 ^ eps_shift

\* gnorm2 <= miuk
GsSmallGradient(g, miu_shift) == IsFinite(g) /\ Abs(g) * 2 ^ miu_shift <= GsMiu0

\* The trial point of the i-th backtracking step: x - t * g with t = gamma^i, gamma = 1/2
GsTrial(x, g, i) == Minus(x, IF IsFinite(g) THEN g \div (2 ^ i) ELSE g)

\* A decrease test with its sides swapped.
GsAcceptsWorse(fx, f) == Lt(f, fx)

\* The sufficient decrease test fx < f - beta * t * gnorm2^2: beta = 1e-16
\* makes the margin positive and below one grid unit.
GsAccepts(fx, f) == Lt(fx, f)

\* The trials of the backtracking loop that are accepted.
GsAccepted(st, g) ==
    {i \in 0..(LsearchMaxIters - 1) : GsAccepts(ValueAt(fn, GsTrial(st.x, g, i)), st.f)}

\* The first accepted trial.
GsFirst(st, g) == CHOOSE i \in GsAccepted(st, g) : \A j \in GsAccepted(st, g) : i <= j

\* A threshold or a radius that is left as it is.
GsKeep(shift) == shift

\* miuk *= theta_miu, epsilonk *= theta_epsilon: one more halving
GsShrink(shift) == shift + 1

\* What an iteration that went on leaves on record: whether the stabilized
\* gradient was small, whether a trial of the line-search was accepted, and the
\* threshold and the radius it started with.
GsRecord(l, small, accepted) ==
    [went_on |-> TRUE, small |-> small, accepted |-> accepted,
     miu_shift |-> l.miu_shift, eps_shift |-> l.eps_shift]

\* The loop ends because the budget is exhausted; the state is evaluated again
\* at the point it holds.
GsExit ==
    /\ pc = "loop"
    /\ solver = "gs"
    /\ ~GsBudget
    /\ fcalls' = fcalls + 1
    /\ gcalls' = gcalls + 1
    /\ state' = StateUpdate(state, fn, state.x, fcalls', gcalls')
    /\ pc' = "idle"
    /\ hist' = [hist EXCEPT !.exit = "budget"]
    /\ UNCHANGED <<fn, solver, epsilon, has_logger, loc, raised, last, ret>>
    /\ UNCHANGED settings
    /\ UNCHANGED extra

\* One iteration of gradient sampling: two sampled gradients, the stabilized
\* gradient, the convergence test, then either the shrinking of the radius and
\* of the threshold or a backtracking line-search.
GsStep(d1, d2, answer) ==
    /\ pc = "loop"
    /\ solver = "gs"
    /\ GsBudget
    /\ d1 \in GsOffsets(loc.eps_shift)
    /\ d2 \in GsOffsets(loc.eps_shift)
    /\ LET g == GsStabilized({GradAt(fn, state.x + d1), GradAt(fn, state.x + d2), state.g})
           iter_ok == GsIterOk(g, loc.eps_shift)
           converged == GsConverged(loc.eps_shift)
           fc == fcalls + 2
           gc == gcalls + 2
           after == DoneState(state, fc, gc, iter_ok, converged, has_logger, answer)
           stops == DoneStops(iter_ok /\ StateValid(state), converged,
                              LogResult(has_logger, answer))
       IN  /\ hist' = [DoneHist([hist EXCEPT !.outer = @ + 1], state, iter_ok, converged,
                                has_logger, answer)
                          EXCEPT !.gs = IF stops THEN [went_on |-> FALSE]
                                        ELSE GsRecord(loc, GsSmallGradient(g, loc.miu_shift),
                                                      GsAccepted(after, g) # {})]
           /\ pc' = PcAfterDone(state, iter_ok, converged, has_logger, answer)
           /\ IF stops
              THEN /\ fcalls' = fc + 1
                   /\ gcalls' = gc + 1
                   /\ state' = StateUpdate(after, fn, after.x, fcalls', gcalls')
                   /\ loc' = loc
              ELSE IF GsSmallGradient(g, loc.miu_shift)
              THEN /\ fcalls' = fc
                   /\ gcalls' = gc
                   /\ state' = after
                   /\ loc' = [loc EXCEPT !.miu_shift = GsShrink(@), !.eps_shift = GsShrink(@)]
              ELSE IF GsAccepted(after, g) # {}
              THEN /\ fcalls' = fc + GsFirst(after, g) + 1 + 1
                   /\ gcalls' = gc + 1
                   /\ state' = StateUpdate(after, fn, GsTrial(after.x, g, GsFirst(after, g)),
                                           fcalls', gcalls')
                   /\ loc' = loc
              ELSE /\ fcalls' = fc + LsearchMaxIters
                   /\ gcalls' = gc
                   /\ state' = after
                   /\ loc' = [loc EXCEPT !.eps_shift = GsShrink(@)]
    /\ UNCHANGED <<fn, solver, epsilon, has_logger, raised, last, ret>>
    /\ UNCHANGED settings
    /\ UNCHANGED extra

\* ------------------------------------- solver_t::lsearch0, solver_t::lsearchk
\* critical(!init, ...): the call throws on an empty pointer.
Lsearch0Throws(init) == init = Null

\* solver_t::lsearch0(id): looks the identifier up, then stores it with the object.
Lsearch0(id) ==
    /\ pc = "idle"
    /\ last' = [op |-> "lsearch0", arg |-> <<id>>]
    /\ LET init == FactoryGet(Lsearch0Ids, id)
       IN  IF Lsearch0Throws(init)
           THEN /\ raised' = TRUE
                /\ UNCHANGED <<m_lsearch0_id, m_lsearch0>>
           ELSE /\ raised' = FALSE
                /\ m_lsearch0_id' = id
                /\ m_lsearch0' = init
    /\ UNCHANGED <<m_lsearchk_id, m_lsearchk, tolerance, state, ret>>
    /\ UNCHANGED solve
    /\ UNCHANGED extra

\* A check that never throws.
LsearchkNeverThrows(strategy) == FALSE

\* critical(!strategy, ...): the call throws on an empty pointer.
LsearchkThrows(strategy) == strategy = Null

\* solver_t::lsearchk(id): looks the identifier up, then stores it with the object.
Lsearchk(id) ==
    /\ pc = "idle"
    /\ last' = [op |-> "lsearchk", arg |-> <<id>>]
    /\ LET strategy == FactoryGet(LsearchkIds, id)
       IN  IF LsearchkThrows(strategy)
           THEN /\ raised' = TRUE
                /\ UNCHANGED <<m_lsearchk_id, m_lsearchk>>
           ELSE /\ raised' = FALSE
                /\ m_lsearchk_id' = id
                /\ m_lsearchk' = strategy
    /\ UNCHANGED <<m_lsearch0_id, m_lsearch0, tolerance, state, ret>>
    /\ UNCHANGED solve
    /\ UNCHANGED extra

\* ------------------------------------------- parameter("solver::tolerance")
\* A domain that admits c1 = c2.
ToleranceDomainLoose(c1, c2) == 0 < c1 /\ c1 <= c2 /\ c2 < One

\* The domain of solver::tolerance: 0 < c1 < c2 < 1
ToleranceDomain(c1, c2) == 0 < c1 /\ c1 < c2 /\ c2 < One

\* parameter("solver::tolerance") = (c1, c2): stored if in the domain, an
\* error that leaves the stored pair alone otherwise.
SetTolerance(c1, c2) ==
    /\ pc = "idle"
    /\ last' = [op |-> "tolerance", arg |-> <<c1, c2>>]
    /\ IF ToleranceDomain(c1, c2)
       THEN /\ raised' = FALSE
            /\ tolerance' = <<c1, c2>>
       ELSE /\ raised' = TRUE
            /\ tolerance' = tolerance
    /\ UNCHANGED <<m_lsearch0_id, m_lsearch0, m_lsearchk_id, m_lsearchk, state, ret>>
    /\ UNCHANGED solve
    /\ UNCHANGED extra

\* ---------------------------------------- solver_state_t::update_if_better
\* The points and the values update_if_better is called with.
CandidatePoints == -2..2

CandidateValues == {NInf, -1, 0, 1, GUnit, 2 * GUnit, 9 * GUnit, PInf, NaN}

\* state.update_if_better(x, f) called on a state built from (function, x0)
UpdateIfBetterCall(x, f) ==
    /\ pc = "idle"
    /\ last' = [op |-> "update_if_better", arg |-> <<x, f>>]
    /\ ret' = UpdateIfBetterResult(state, f)
    /\ state' = UpdateIfBetterAt(state, x, f)
    /\ raised' = FALSE
    /\ UNCHANGED solve
    /\ UNCHANGED settings
    /\ UNCHANGED extra

\* ------------------------------------------------------------- line-search
\* The step length 1 in grid units: a power of two, so that the smallest
\* step can be halved by every trial of a line-search and stay on the grid.
TUnit == 2 ^ (3 * LsearchkMaxIterations)

\* lsearchk_t::stpmin(): the smallest step a line-search starts from
StpMin == 2 ^ (2 * LsearchkMaxIterations)

\* A step that is tried again as it is.
Same(t) == t

\* t *= 0.5
Half(t) == t \div 2

\* solver_state_t::has_descent: d.dot(g) < 0
HasDescent(st) == Lt(Times(st.d, st.g), 0)

\* solver_state_t::dg(): the directional derivative d.dot(g)
DG(st) == Times(st.d, st.g)

\* state.update(state0, t): x = state0.x + t * state0.d, evaluated (value and
\* gradient); the point is rounded to the grid as a floating-point sum is.
LsUpdate(f, st0, t) ==
    LET x1 == IF IsFinite(st0.x) /\ IsFinite(st0.d)
              THEN st0.x + (2 * t * st0.d + TUnit) \div (2 * TUnit)
              ELSE Plus(st0.x, Times(t, st0.d))
    IN  [st0 EXCEPT !.x = x1, !.f = ValueAt(f, x1), !.g = GradAt(f, x1), !.t = t]

\* A clamp that leaves a finite proposal as it is.
LsearchkClampNone(t) == IF IsFinite(t) THEN t ELSE TUnit

\* std::isfinite(t) ? std::clamp(t, stpmin(), 1) : 1
LsearchkClamp(t) ==
    IF IsFinite(t)
    THEN (IF t < StpMin THEN StpMin ELSE IF TUnit < t THEN TUnit ELSE t)
    ELSE TUnit

\* log(state0, state): what the line-search logger is handed at a trial, the
\* base state's point and step and the trial's step, point and validity.
LsearchkLogged(st0, trial) ==
    [x0 |-> st0.x, t0 |-> st0.t, t |-> trial.t, x |-> trial.x, valid |-> StateValid(trial)]

\* The first loop of lsearchk_t::get: up to max_iterations trials, halving
\* the step after a trial that is not valid; i trials were made before.
RECURSIVE LsearchkInitial(_, _, _, _)
LsearchkInitial(f, st0, t, i) ==
    LET trial == LsUpdate(f, st0, t)
    IN  IF StateValid(trial)
        THEN [state |-> trial, t |-> t, trials |-> i + 1, valid |-> TRUE,
              logged |-> <<LsearchkLogged(st0, trial)>>]
        ELSE IF i + 1 >= LsearchkMaxIterations
        THEN [state |-> trial, t |-> Half(t), trials |-> i + 1, valid |-> FALSE,
              logged |-> <<LsearchkLogged(st0, trial)>>]
        ELSE [LsearchkInitial(f, st0, Half(t), i + 1)
                EXCEPT !.logged = <<LsearchkLogged(st0, trial)>> \o @]

\* The Armijo condition: f(t) <= f(0) + c1 * t * dg(0), with c1 in units of 1 / One
HasArmijo(st0, st, c1) ==
    LET decrease == Minus(st0.f, st.f)
    IN  IF ~IsFinite(decrease) \/ ~IsFinite(DG(st0))
        THEN Le(Minus(st.f, st0.f), Times(c1 * st.t, DG(st0)))
        ELSE IF decrease <= 0
        THEN decrease = 0 /\ c1 * st.t * DG(st0) >= 0
        ELSE decrease >= (c1 * st.t * (-DG(st0)) + One * TUnit - 1) \div (One * TUnit)

\* The concrete strategy's get(state0, state), a backtracking on the Armijo
\* condition: an accepted state ends the search, a state that is not valid
\* is given up and a refused one is halved, up to max_iterations times.
RECURSIVE StrategyGet(_, _, _, _, _)
StrategyGet(f, st0, st, c1, i) ==
    IF HasArmijo(st0, st, c1) THEN [ok |-> TRUE, state |-> st, trials |-> i]
    ELSE IF ~StateValid(st) \/ i >= LsearchkMaxIterations
    THEN [ok |-> FALSE, state |-> st, trials |-> i]
    ELSE StrategyGet(f, st0, LsUpdate(f, st0, Half(st.t)), c1, i + 1)

\* A result that trusts the strategy alone.
LsearchkResultUnchecked(accepted, st) == accepted

\* return get(state0, state) && state;
LsearchkResult(accepted, st) == accepted /\ StateValid(st)

\* A test that lets every direction into the line-search.
LsearchkRefusesNothing(st) == FALSE

\* if (!state.has_descent()) return false;
LsearchkRefuses(st) == ~HasDescent(st)

\* No line-search was made.
NoLsearch ==
    [called |-> FALSE, refused |-> FALSE, ok |-> FALSE, accepted |-> FALSE, first |-> 0,
     trials |-> 0, initial |-> 0, found |-> FALSE, t0 |-> 0, logged |-> << >>]

\* What lsearchk_t::get returns (ok) after its first loop and the strategy's
\* search, with the state it leaves and the trials made (each one logged).
LsearchkOutcome(first, search) ==
    [called |-> TRUE, refused |-> FALSE, ok |-> LsearchkResult(search.ok, search.state),
     accepted |-> search.ok, first |-> 0, trials |-> first.trials + search.trials,
     initial |-> first.trials, found |-> first.valid, t0 |-> 0, logged |-> first.logged,
     state |-> search.state]

\* The second phase of lsearchk_t::get: the strategy, from the first loop's state.
LsearchkSearch(f, st0, first, c1) ==
    LsearchkOutcome(first, StrategyGet(f, st0, first.state, c1, 0))

\* lsearchk_t::get(state, t): refused without a descent direction; otherwise
\* state0 = make_state0(state), the clamped step, the two phases.
LsearchkGet(f, st, t, c1) ==
    IF LsearchkRefuses(st)
    THEN [NoLsearch EXCEPT !.called = TRUE, !.refused = TRUE, !.t0 = t] @@ [state |-> st]
    ELSE [LsearchkSearch(f, [st EXCEPT !.t = 0],
                         LsearchkInitial(f, [st EXCEPT !.t = 0], LsearchkClamp(t), 0), c1)
            EXCEPT !.first = LsearchkClamp(t), !.t0 = t]

\* ------------------------------------------------- lsearch0_quadratic_t::get
\* std::min(a, b): (b < a) ? b : a
StdMin(a, b) == IF Lt(b, a) THEN b ELSE a

\* -alpha * 2 * std::max(m_prevf - state.f, beta * epsilon) / m_prevdg in grid
\* units of the step, with alpha = 1.01; beta * epsilon is below one unit of
\* the values, a quotient that is not zero is rounded away from zero, and a
\* zero m_prevdg is taken as +0.
QuadraticStep(prevf, prevdg, f) ==
    LET decrease == StdMax(Minus(prevf, f), 0)
    IN  IF decrease = NaN \/ prevdg = NaN THEN NaN
        ELSE IF prevdg = 0 THEN NInf
        ELSE IF decrease = PInf
        THEN (IF ~IsFinite(prevdg) THEN NaN ELSE IF prevdg < 0 THEN PInf ELSE NInf)
        ELSE IF ~IsFinite(prevdg) THEN 0
        ELSE IF decrease < 1 THEN -Sign(prevdg)
        ELSE -Sign(prevdg) * ((202 * decrease * TUnit + 100 * Abs(prevdg) - 1)
                                \div (100 * Abs(prevdg)))

\* lsearch0_quadratic_t::get(state): the proposal t0 and the object after
\* the call, which remembers the value and the slope of this state.
QuadraticGet(obj, st) ==
    [t0 |-> IF st.iterations <= 1 THEN TUnit
            ELSE StdMin(TUnit, QuadraticStep(obj.prevf, obj.prevdg, st.f)),
     obj |-> [obj EXCEPT !.prevf = st.f, !.prevdg = DG(st)]]

\* --------------------------------- do_minimize of a line-search descent solver
\* solver_state_t::converged(epsilon): the gradient test, squared
GdConverged(st, eps) == IsFinite(st.g) /\ st.g * st.g < eps

\* The first call to done(), on the initial state: a stationary start converges.
GdStart(answer) ==
    /\ pc = "loop"
    /\ solver = "gd"
    /\ ~loc.started
    /\ LET converged == GdConverged(state, epsilon)
       IN  /\ state' = DoneState(state, fcalls, gcalls, TRUE, converged, has_logger, answer)
           /\ hist' = DoneHist(hist, state, TRUE, converged, has_logger, answer)
           /\ pc' = PcAfterDone(state, TRUE, converged, has_logger, answer)
    /\ loc' = [loc EXCEPT !.started = TRUE]
    /\ UNCHANGED <<fn, fcalls, gcalls, solver, epsilon, has_logger, raised, last, ret>>
    /\ UNCHANGED settings
    /\ UNCHANGED extra

\* The loop's guard: function.fcalls() < max_evals
GdBudget(fc) == fc < MaxEvals

GdExit ==
    /\ pc = "loop"
    /\ solver = "gd"
    /\ loc.started
    /\ ~GdBudget(fcalls)
    /\ pc' = "idle"
    /\ hist' = [hist EXCEPT !.exit = "budget"]
    /\ UNCHANGED <<fn, fcalls, gcalls, solver, epsilon, has_logger, state, loc, raised, last, ret>>
    /\ UNCHANGED settings
    /\ UNCHANGED extra

\* One iteration: the direction d = -g, the proposal of lsearch0, the
\* line-search of lsearchk, then done(); obj is the lsearch0 object in use.
GdDone(ls, init, fc, gc, eps, hl, answer) ==
    [state |-> DoneState(ls.state, fc + ls.trials, gc + ls.trials, ls.ok,
                         GdConverged(ls.state, eps), hl, answer),
     before |-> ls.state, obj |-> init.obj, ls |-> ls,
     fcalls |-> fc + ls.trials, gcalls |-> gc + ls.trials,
     iter_ok |-> ls.ok, converged |-> GdConverged(ls.state, eps),
     trial |-> <<init.t0, ls.first, ls.state.x>>]

GdSearch(f, st, init, fc, gc, eps, c1, hl, answer) ==
    GdDone(LsearchkGet(f, st, init.t0, c1), init, fc, gc, eps, hl, answer)

GdIterate(f, st, obj, fc, gc, eps, c1, hl, answer) ==
    GdSearch(f, [st EXCEPT !.d = Minus(0, st.g)],
             QuadraticGet(obj, [st EXCEPT !.d = Minus(0, st.g)]),
             fc, gc, eps, c1, hl, answer)

GdStep(answer) ==
    /\ pc = "loop"
    /\ solver = "gd"
    /\ loc.started
    /\ GdBudget(fcalls)
    /\ \E r \in {GdIterate(fn, state,
                            IF loc.lsearch = "clone" THEN loc.lsearch0 ELSE m_lsearch0,
                            fcalls, gcalls, epsilon, tolerance[1], has_logger, answer)} :
           /\ state' = r.state
           /\ fcalls' = r.fcalls
           /\ gcalls' = r.gcalls
           /\ loc' = [loc EXCEPT !.lsearch0 = IF loc.lsearch = "clone" THEN r.obj ELSE @,
                                 !.trace = Append(@, r.trial)]
           /\ m_lsearch0' = IF loc.lsearch = "clone" THEN m_lsearch0 ELSE r.obj
           /\ hist' = DoneHist([hist EXCEPT !.outer = @ + 1, !.ls = r.ls], r.before,
                               r.iter_ok, r.converged, has_logger, answer)
           /\ pc' = PcAfterDone(r.before, r.iter_ok, r.converged, has_logger, answer)
    /\ UNCHANGED <<fn, solver, epsilon, has_logger, raised, last, ret>>
    /\ UNCHANGED <<m_lsearch0_id, m_lsearchk_id, m_lsearchk, tolerance>>
    /\ UNCHANGED extra

\* ------------------------------------------------- lsearchk_t::get, called
\* The directions and the steps a line-search is called with.
Directions == {-GUnit, 0, GUnit, PInf, NaN}

Steps == {NInf, -TUnit, 0, 1, TUnit \div 2, TUnit, 2 * TUnit, PInf, NaN}

\* solver_state_t{function, x} with the direction d, on a function of its own
NewState(f, x, d) ==
    /\ pc = "idle"
    /\ fn' = f
    /\ fcalls' = 1
    /\ gcalls' = 1
    /\ state' = [MakeState(f, x) EXCEPT !.d = d]
    /\ hist' = NoHist
    /\ loc' = NoLocals
    /\ ret' = FALSE
    /\ raised' = FALSE
    /\ last' = [op |-> "state", arg |-> <<x, d>>]
    /\ UNCHANGED <<solver, epsilon, has_logger, pc>>
    /\ UNCHANGED settings
    /\ UNCHANGED extra

\* lsearchk.get(state, t) called on a state that was just built
LsearchkCall(t) ==
    /\ pc = "idle"
    /\ last.op = "state"
    /\ \E ls \in {LsearchkGet(fn, state, t, tolerance[1])} :
           /\ state' = ls.state
           /\ ret' = ls.ok
           /\ fcalls' = fcalls + ls.trials
           /\ gcalls' = gcalls + ls.trials
           /\ hist' = [hist EXCEPT !.ls = ls]
    /\ raised' = FALSE
    /\ last' = [op |-> "lsearchk_get", arg |-> <<t>>]
    /\ UNCHANGED <<fn, solver, epsilon, has_logger, pc, loc>>
    /\ UNCHANGED settings
    /\ UNCHANGED extra

\* ------------------------------ solver_state_t::update_if_better_constrained
\* A state of a constrained problem with one inequality constraint g(x) <= 0:
\* the point, the value, the gradient, the step and the constraint's value.
ConstrainedState(x, f, g, t, cineq) == [x |-> x, f |-> f, g |-> g, t |-> t, cineq |-> cineq]

\* solver_state_t::valid with constraints: f, x, g, t and the constraint values are finite
ConstrainedValid(st) ==
    IsFinite(st.f) /\ IsFinite(st.x) /\ IsFinite(st.g) /\ IsFinite(st.t) /\ IsFinite(st.cineq)

\* solver_state_t::constraint_test: the violation max(0, g(x)) of the inequality
ConstraintTest(st) == IF st.cineq = NaN THEN NaN ELSE StdMax(0, st.cineq)

\* An acceptance test that does not look at the candidate's validity.
BetterConstrainedUnchecked(st, cand, eps) ==
    \/ Lt(eps, ConstraintTest(st))
    \/ Le(cand.f, st.f) /\ Le(ConstraintTest(cand), ConstraintTest(st))

\* The value update_if_better_constrained returns: the candidate is valid, and
\* the incumbent is infeasible beyond eps or the candidate is no worse in
\* value while at least as feasible.
BetterConstrained(st, cand, eps) ==
    /\ ConstrainedValid(cand)
    /\ \/ Lt(eps, ConstraintTest(st))
       \/ Le(cand.f, st.f) /\ Le(ConstraintTest(cand), ConstraintTest(st))

\* solver_state_t::update_if_better_constrained(cstate, epsilon)
UpdateIfBetterConstrained(st, cand, eps) ==
    IF BetterConstrained(st, cand, eps)
    THEN [st EXCEPT !.x = cand.x, !.f = cand.f, !.g = cand.g, !.cineq = cand.cineq]
    ELSE st

\* The candidates update_if_better_constrained is called with, and the tolerances.
ConstrainedCandidates ==
    {ConstrainedState(x, f, g, t, c) :
        x \in {0, NaN}, f \in {0, GUnit, 2 * GUnit, NaN}, g \in {0, NaN},
        t \in {1, PInf}, c \in {-1, 0, 1, 3, NaN}}

ConstraintEpsilons == {0, 1}

\* state.update_if_better_constrained(cstate, epsilon) called on a state
UpdateIfBetterConstrainedCall(cand, eps) ==
    /\ outer.pc = "idle"
    /\ last' = [op |-> "update_if_better_constrained", arg |-> <<cand, eps>>]
    /\ ret' = BetterConstrained(bstate, cand, eps)
    /\ bstate' = UpdateIfBetterConstrained(bstate, cand, eps)
    /\ raised' = FALSE
    /\ UNCHANGED <<state, outer, constraints, threads, registry>>
    /\ UNCHANGED solve
    /\ UNCHANGED settings

\* ------------------------------------------------------ function_t::constrain
\* The constraints that bound one coordinate (constant_t and the two derived
\* from it), and those that carry a vector of the function's size.
CoordinateKinds == {"constant", "minimum", "maximum"}

VectorKinds == {"euclidean_ball_inequality", "linear_equality"}

\* A constraint: its variant, with m_dimension for a coordinate constraint
\* and the size of m_origin or m_q for a vector one.
Constraint(kind, dim) == [kind |-> kind, dim |-> dim]

\* constraint_t{}: the first alternative, constant_t with m_dimension = -1
DefaultConstraint == Constraint("constant", 0 - 1)

\* A check that admits the index one past the last coordinate.
CompatibleUpToSize(c, n) ==
    IF c.kind \in CoordinateKinds THEN 0 <= c.dim /\ c.dim <= n ELSE c.dim = n

\* compatible(constraint, function): the coordinate is one of the function's,
\* or the vector has the function's size
Compatible(c, n) ==
    IF c.kind \in CoordinateKinds THEN 0 <= c.dim /\ c.dim < n ELSE c.dim = n

\* function.constrain(constraint): appended if compatible, refused otherwise
Constrain(c) ==
    /\ Len(constraints) < MaxConstraints
    /\ last' = [op |-> "constrain", arg |-> <<c>>]
    /\ ret' = Compatible(c, FunctionSize(fn))
    /\ constraints' = IF Compatible(c, FunctionSize(fn)) THEN Append(constraints, c)
                      ELSE constraints
    /\ raised' = FALSE
    /\ UNCHANGED <<state, bstate, outer, threads, registry>>
    /\ UNCHANGED solve
    /\ UNCHANGED settings

\* ------------------------------------------- minimize called from two threads
\* The calling threads.
Threads == {1, 2}

\* A thread that is not in minimize.
NoThread ==
    [pc |-> "idle", fn |-> "abs", x0 |-> 0, state |-> MakeState("abs", 0), fcalls |-> 0,
     gcalls |-> 0, lsearch |-> MakeLsearch, lsearch0 |-> Null, trace |-> << >>]

\* minimize(function, x0) of the line-search solver, entered by thread i with
\* a function of its own: the counters cleared, the clones, the initial state.
ThreadMinimize(i, f, x0) ==
    /\ threads[i].pc \in {"idle", "returned"}
    /\ threads' = [threads EXCEPT ![i] =
            [pc |-> "start", fn |-> f, x0 |-> x0, state |-> MakeState(f, x0),
             fcalls |-> ClearStatistics(0) + 1, gcalls |-> ClearStatistics(0) + 1, lsearch |-> MakeLsearch, lsearch0 |-> m_lsearch0, trace |-> << >>]]
    /\ UNCHANGED <<state, raised, last, ret, bstate, outer, constraints, registry>>
    /\ UNCHANGED solve
    /\ UNCHANGED settings

\* The first call to done() of thread i.
ThreadStart(i) ==
    /\ threads[i].pc = "start"
    /\ \E t \in {threads[i]} :
           threads' = [threads EXCEPT ![i] =
               [t EXCEPT !.state = DoneState(t.state, t.fcalls, t.gcalls, TRUE,
                                             GdConverged(t.state, epsilon), FALSE, TRUE),
                         !.pc = IF PcAfterDone(t.state, TRUE, GdConverged(t.state, epsilon),
                                               FALSE, TRUE) = "idle"
                                THEN "returned" ELSE "loop"]]
    /\ UNCHANGED <<state, raised, last, ret, bstate, outer, constraints, registry>>
    /\ UNCHANGED solve
    /\ UNCHANGED settings

\* Thread i leaves its loop with the budget spent.
ThreadExit(i) ==
    /\ threads[i].pc = "loop"
    /\ ~GdBudget(threads[i].fcalls)
    /\ threads' = [threads EXCEPT ![i].pc = "returned"]
    /\ UNCHANGED <<state, raised, last, ret, bstate, outer, constraints, registry>>
    /\ UNCHANGED solve
    /\ UNCHANGED settings

\* One iteration of thread i, on the line-search objects make_lsearch gave it.
ThreadStep(i) ==
    /\ threads[i].pc = "loop"
    /\ GdBudget(threads[i].fcalls)
    /\ \E t \in {threads[i]} :
       \E r \in {GdIterate(t.fn, t.state, IF t.lsearch = "clone" THEN t.lsearch0 ELSE m_lsearch0,
                            t.fcalls, t.gcalls, epsilon, tolerance[1], FALSE, TRUE)} :
           /\ threads' = [threads EXCEPT ![i] =
                  [t EXCEPT !.state = r.state, !.fcalls = r.fcalls, !.gcalls = r.gcalls,
                            !.lsearch0 = IF t.lsearch = "clone" THEN r.obj ELSE @,
                            !.trace = Append(@, r.trial),
                            !.pc = IF PcAfterDone(r.before, r.iter_ok, r.converged, FALSE, TRUE)
                                      = "idle"
                                   THEN "returned" ELSE "loop"]]
           /\ m_lsearch0' = IF t.lsearch = "clone" THEN m_lsearch0 ELSE r.obj
    /\ UNCHANGED <<state, raised, last, ret, bstate, outer, constraints, registry>>
    /\ UNCHANGED solve
    /\ UNCHANGED <<m_lsearch0_id, m_lsearchk_id, m_lsearchk, tolerance>>

\* The same solve made alone with history-free line-search objects: the
\* state minimize returns and the trial steps and iterates on the way.
RECURSIVE SoloLoop(_, _, _, _, _, _)
SoloEnd(f, r, trace) ==
    IF PcAfterDone(r.before, r.iter_ok, r.converged, FALSE, TRUE) = "idle"
    THEN [state |-> r.state, trace |-> Append(trace, r.trial)]
    ELSE SoloLoop(f, r.state, r.obj, r.fcalls, r.gcalls, Append(trace, r.trial))

SoloLoop(f, st, obj, fc, gc, trace) ==
    IF ~GdBudget(fc) THEN [state |-> st, trace |-> trace]
    ELSE SoloEnd(f, GdIterate(f, st, obj, fc, gc, epsilon, tolerance[1], FALSE, TRUE), trace)

Solo(f, x0) ==
    IF PcAfterDone(MakeState(f, x0), TRUE, GdConverged(MakeState(f, x0), epsilon), FALSE, TRUE)
          = "idle"
    THEN [state |-> DoneState(MakeState(f, x0), 1, 1, TRUE,
                              GdConverged(MakeState(f, x0), epsilon), FALSE, TRUE),
          trace |-> << >>]
    ELSE SoloLoop(f, DoneState(MakeState(f, x0), 1, 1, TRUE, FALSE, FALSE, TRUE),
                  FactoryGet(Lsearch0Ids, m_lsearch0_id), 1, 1, << >>)

\* ----------------------------------------------------------- specifications
\* The steps of a running solve.
Step ==
    \/ EllipsoidExit
    \/ \E answer \in Answers : EllipsoidStationary(answer)
    \/ \E answer \in Answers : EllipsoidStep(answer)
    \/ FpbaExit
    \/ \E answer \in Answers : FpbaStep(answer)
    \/ GsExit
    \/ \E d1 \in -1..1, d2 \in -1..1, answer \in Answers : GsStep(d1, d2, answer)

Next ==
    \/ \E l \in BOOLEAN : Logger(l)
    \/ \E e \in Epsilons : SetEpsilon(e)
    \/ \E s \in SolverIds, x0 \in X0s : MinimizeError(s, x0)
    \/ \E s \in SolverIds, x0 \in X0s : Minimize(s, x0)
    \/ Step

\* Solves on a configured solver.
Spec == Init /\ [][Next]_vars

NextConfig ==
    \/ \E id \in LsearchIds : Lsearch0(id)
    \/ \E id \in LsearchIds : Lsearchk(id)
    \/ \E c1 \in ToleranceValues, c2 \in ToleranceValues : SetTolerance(c1, c2)

\* The configuration of a solver.
SpecConfig == Init /\ [][NextConfig]_vars

InitState ==
    /\ fn \in Functions
    /\ fcalls = 1
    /\ gcalls = 1
    /\ state \in {MakeState(fn, x0) : x0 \in CandidatePoints}
    /\ solver = "ellipsoid"
    /\ epsilon = 1
    /\ has_logger = FALSE
    /\ pc = "idle"
    /\ loc = NoLocals
    /\ raised = FALSE
    /\ hist = NoHist
    /\ last = NoCall
    /\ ret = FALSE
    /\ m_lsearch0_id = "quadratic"
    /\ m_lsearch0 = FactoryGet(Lsearch0Ids, "quadratic")
    /\ m_lsearchk_id = "morethuente"
    /\ m_lsearchk = FactoryGet(LsearchkIds, "morethuente")
    /\ tolerance = <<1, 1000>>
    /\ InitExtra

NextState == \E x \in CandidatePoints, f \in CandidateValues : UpdateIfBetterCall(x, f)

\* Calls of update_if_better on a solver state.
SpecState == InitState /\ [][NextState]_vars

\* A solver at rest, with a function f and a state st of its last solve.
IdleSolver(f, st) ==
    /\ fn = f
    /\ fcalls = 1
    /\ gcalls = 1
    /\ state = st
    /\ solver = "ellipsoid"
    /\ epsilon = 1
    /\ has_logger = FALSE
    /\ pc = "idle"
    /\ loc = NoLocals
    /\ raised = FALSE
    /\ hist = NoHist
    /\ last = NoCall
    /\ ret = FALSE
    /\ m_lsearch0_id = "quadratic"
    /\ m_lsearch0 = FactoryGet(Lsearch0Ids, "quadratic")
    /\ m_lsearchk_id = "morethuente"
    /\ m_lsearchk = FactoryGet(LsearchkIds, "morethuente")
    /\ tolerance = <<1, 1000>>

InitConstrainedState ==
    /\ IdleSolver("sphere", MakeState("sphere", 0))
    /\ bstate \in {ConstrainedState(x, f, 0, 0, c) : x \in {1}, f \in {GUnit, NaN}, c \in {0, 1, 2}}
    /\ outer = [pc |-> "idle"]
    /\ constraints = << >>
    /\ threads = << >>
    /\ registry = << >>

NextConstrainedState ==
    \E cand \in ConstrainedCandidates, eps \in ConstraintEpsilons :
        UpdateIfBetterConstrainedCall(cand, eps)

\* Calls of update_if_better_constrained on the state of a constrained problem.
SpecConstrainedState == InitConstrainedState /\ [][NextConstrainedState]_vars

InitDescent ==
    /\ fn \in DescentFunctions
    /\ fcalls = 0
    /\ gcalls = 0
    /\ solver = "gd"
    /\ epsilon = 1
    /\ has_logger = FALSE
    /\ pc = "idle"
    /\ state = MakeState(fn, 0)
    /\ loc = NoLocals
    /\ raised = FALSE
    /\ hist = NoHist
    /\ last = NoCall
    /\ ret = FALSE
    /\ m_lsearch0_id = "quadratic"
    /\ m_lsearch0 = FactoryGet(Lsearch0Ids, "quadratic")
    /\ m_lsearchk_id = "morethuente"
    /\ m_lsearchk = FactoryGet(LsearchkIds, "morethuente")
    /\ tolerance = <<1, 1000>>
    /\ InitExtra

\* The steps of a running line-search solve.
StepDescent ==
    \/ \E answer \in Answers : GdStart(answer)
    \/ \E answer \in Answers : GdStep(answer)
    \/ GdExit

NextDescent ==
    \/ \E l \in BOOLEAN : Logger(l)
    \/ \E e \in Epsilons : SetEpsilon(e)
    \/ \E x0 \in X0s : MinimizeError("gd", x0)
    \/ \E x0 \in X0s : Minimize("gd", x0)
    \/ StepDescent
    \/ \E f \in DescentFunctions, x \in {-1, 1, Edge - 2}, d \in Directions : NewState(f, x, d)
    \/ \E t \in Steps : LsearchkCall(t)

\* Solves of a line-search descent solver, and line-searches called on a state.
SpecDescent == InitDescent /\ [][NextDescent]_vars

InitFunction ==
    /\ \E f \in {"sphere", "sphere2", "sphere3"} : IdleSolver(f, MakeState("sphere", 0))
    /\ InitExtra

NextFunction ==
    \E kind \in CoordinateKinds \cup VectorKinds, dim \in -1..3 : Constrain(Constraint(kind, dim))

\* Constraints registered on a function of 1, 2 or 3 dimensions.
SpecFunction == InitFunction /\ [][NextFunction]_vars

InitThreads ==
    /\ IdleSolver("abs", MakeState("abs", 0))
    /\ bstate = [x |-> 0]
    /\ outer = [pc |-> "idle"]
    /\ constraints = << >>
    /\ threads = [i \in Threads |-> NoThread]
    /\ registry = << >>

NextThreads ==
    \E i \in Threads :
        \/ \E f \in {"abs", "hinge", "barrier", "log"} : \E x0 \in StartsOf(f) : ThreadMinimize(i, f, x0)
        \/ ThreadStart(i)
        \/ ThreadStep(i)
        \/ ThreadExit(i)

\* Two threads that call minimize on one line-search solver.
SpecThreads == InitThreads /\ [][NextThreads]_vars

\* ------------------------------------------------ constrained outer loops
\* The constrained solvers: an outer loop around an unconstrained inner solve.
OuterSolvers == {"augmented-lagrangian", "linear-penalty", "quadratic-penalty"}

\* The problem of the outer loops: the function fn under the one inequality
\* constraint 1 - x <= 0 and the one equality constraint x - 2 = 0.
CineqAt(x) == IF IsFinite(x) THEN 1 - x ELSE NaN

CeqAt(x) == IF IsFinite(x) THEN x - 2 ELSE NaN

\* solver_state_t{function, x0} of the constrained problem, plus what a
\* solver_state_t counts and its status.
OuterState(f, x0) ==
    [x |-> x0, f |-> ValueAt(f, x0), g |-> GradAt(f, x0), t |-> 0, cineq |-> CineqAt(x0),
     ceq |-> CeqAt(x0),
     status |-> "max_iters", fcalls |-> 1, gcalls |-> 1, inner_iters |-> 0, outer_iters |-> 0]

\* The state an inner solve returns: what the inner solver makes of the
\* penalized function is not fixed here, so any point with any value is one.
InnerState(x, f, g, c) ==
    [x |-> x, f |-> f, g |-> g, t |-> 0, cineq |-> c, ceq |-> CeqAt(x),
     status |-> "converged", fcalls |-> 2, gcalls |-> 2, inner_iters |-> 1, outer_iters |-> 0]

InnerStates ==
    {InnerState(2, GUnit, 0, 0 - 1), InnerState(1, 0, 0, 0), InnerState(0, 0, 0, 1),
     InnerState(0 - 2, GUnit, 0, 3),
     InnerState(NaN, NaN, NaN, NaN), InnerState(2, NaN, 0, 0 - 1), InnerState(2, PInf, 0, 3),
     InnerState(1, 0, NaN, 0)}

\* The states the inner solve of the augmented Lagrangian can return: with a
\* penalty ro that is not a number the penalized function is not a number
\* anywhere, and no valid state comes back.
InnerStatesAt(ro) ==
    IF IsFinite(ro) THEN InnerStates ELSE {c \in InnerStates : ~ConstrainedValid(c)}

\* state.p.sum(): the penalties of the inequality and of the equality,
\* max(0, g(x)) + |h(x)|
PenaltySum(st) == Plus(ConstraintTest(st), IF st.ceq = NaN THEN NaN ELSE Abs(st.ceq))

\* make_ro1: 2|f| / max(h.h + G.G, 1e-6) clamped to [ro_min, ro_max], in units
\* of ro_min; std::clamp hands a NaN through
RoMin == 1

RoMax == 10000000

MakeRo1(st) ==
    LET G == StdMax(0, st.cineq)
        D == st.ceq * st.ceq + G * G
    IN  IF st.f = NaN \/ ~IsFinite(st.ceq) \/ ~IsFinite(st.cineq) THEN NaN
        ELSE IF ~IsFinite(st.f) THEN RoMax
        ELSE IF D = 0 THEN (IF st.f = 0 THEN RoMin ELSE RoMax)
        ELSE StdMax(RoMin, StdMin(RoMax, (2 * Abs(st.f) * 1000000) \div D))

\* make_criterion: the largest violation, max(|h(x)|, |max(g(x), -miu / ro)|),
\* rounded to the grid
MakeCriterion(st, miu, ro) ==
    StdMax(Abs(st.ceq), Abs(StdMax(st.cineq, 0 - (miu \div ro))))

\* solver::augmented::miu_max, the bounds of solver::augmented::lambda,
\* solver::augmented::gamma and 1 / solver::augmented::tau
MiuMax == 20000000

LambdaMax == 20000000

LambdaMin == 0 - LambdaMax

Gamma == 2

TauInverse == 2

\* solver::penalty::penalty0 and solver::penalty::eta2
Penalty0 == 1

Eta2 == 2

\* A multiplier update that forgets the sign of the inequality multipliers.
MiuUpdateSigned(miu, ro, st) == StdMin(MiuMax, miu + ro * st.cineq)

\* miu = (miu + ro * g(x)).max(0).min(miu_max)
MiuUpdate(miu, ro, st) == StdMin(MiuMax, StdMax(0, miu + ro * st.cineq))

\* lambda = (lambda + ro * h(x)).max(lambda_min).min(lambda_max)
LambdaUpdate(lambda, ro, st) == StdMin(LambdaMax, StdMax(LambdaMin, lambda + ro * st.ceq))

\* A penalty that is grown whenever the criterion does not shrink, also at the
\* first outer iteration.
RoGrowsAtFirst(k, criterion, old_criterion) == TauInverse * criterion > old_criterion

\* outer > 0 && criterion > tau * old_criterion
RoGrows(k, criterion, old_criterion) == k > 0 /\ TauInverse * criterion > old_criterion

\* A penalty weight that is kept.
PenaltyKept(penalty) == penalty

\* penalty *= eta2
PenaltyNext(penalty) == Eta2 * penalty

\* ::nano::converged(bstate, cstate, epsilon): the inner solution is feasible
\* up to epsilon and no longer moves the value
OuterConverged(b, c, eps) ==
    Lt(PenaltySum(c), eps) /\ IsFinite(b.f) /\ Lt(Abs(c.f - b.f), eps)

\* What the outer loop keeps of its run: its position, the inner result of the
\* last iteration, the incumbent as it was before an iteration whose inner
\* result was not valid, and what the last iteration started from.
NoOuter == [pc |-> "idle"]

OuterUsed(o, improved) ==
    [ro |-> o.ro, lambda |-> o.lambda, miu |-> o.miu, old_criterion |-> o.old_criterion,
     outer |-> o.outer, precise |-> o.precise, penalty |-> o.penalty, improved |-> improved]

OuterBegin(kind, st) ==
    [pc |-> "loop", solver |-> kind, outer |-> 0, ro |-> MakeRo1(st), old_criterion |-> 0,
     lambda |-> 0, miu |-> 0, penalty |-> Penalty0, precise |-> 0, cstate |-> st,
     invalid |-> FALSE, before |-> st, solves |-> 0, f0 |-> st.f,
     used |-> [ro |-> MakeRo1(st), lambda |-> 0, miu |-> 0, old_criterion |-> 0, outer |-> 0,
               precise |-> 0, penalty |-> Penalty0, improved |-> FALSE]]

\* minimize of a constrained solver up to its loop: the initial state, the
\* initial penalty and multipliers
OuterMinimize(kind, x0) ==
    /\ outer.pc # "loop"
    /\ bstate' = OuterState(fn, x0)
    /\ outer' = OuterBegin(kind, OuterState(fn, x0))
    /\ last' = [op |-> "minimize", arg |-> <<kind, x0>>]
    /\ UNCHANGED <<state, raised, ret, constraints, threads, registry>>
    /\ UNCHANGED solve
    /\ UNCHANGED settings

\* The record of an iteration: the inner result, and whether it was valid.
OuterRecord(o, c, b) ==
    [o EXCEPT !.cstate = c,
              !.solves = @ + 1,
              !.invalid = @ \/ ~ConstrainedValid(c),
              !.before = IF o.invalid \/ ConstrainedValid(c) THEN @ ELSE b]

\* The position after an iteration that did not break: the loop again while
\* outer < max_outers, else the return.
OuterNext(o) ==
    [o EXCEPT !.outer = @ + 1, !.pc = IF o.outer + 1 < MaxOuterIters THEN "loop" ELSE "returned"]

\* bstate.update_if_better_constrained(cstate, epsilon) on a state that also
\* holds the value of the equality constraint
OuterUpdate(b, c, eps) ==
    IF BetterConstrained(b, c, eps)
    THEN [UpdateIfBetterConstrained(b, c, eps) EXCEPT !.ceq = c.ceq]
    ELSE b

\* The locals after the rest of an iteration that did not break: the
\* multipliers, the penalty, the criterion and the inner accuracy.
AugmentedUpdate(o, cstate, lambda, miu, criterion, improved) ==
    [o EXCEPT !.lambda = lambda,
              !.miu = miu,
              !.ro = IF RoGrows(o.outer, criterion, o.old_criterion) THEN Gamma * @ ELSE @,
              !.old_criterion = criterion,
              !.precise = IF improved THEN @ + 1 ELSE @]

\* One iteration of solver_augmented_lagrangian_t::do_minimize with the inner
\* solve returning cstate
AugmentedIterate(cstate, answer) ==
    LET iter_ok   == ConstrainedValid(cstate)
        converged == iter_ok /\ OuterConverged(bstate, cstate, epsilon)
        improved  == BetterConstrained(bstate, cstate, epsilon)
        best      == OuterUpdate(bstate, cstate, epsilon)
        step_ok   == iter_ok /\ ConstrainedValid(best)
        go_on     == LogResult(has_logger, answer)
        o         == [OuterRecord(outer, cstate, bstate) EXCEPT
                         !.used = OuterUsed(outer, improved)]
    IN  /\ outer.pc = "loop"
        /\ outer.solver = "augmented-lagrangian"
        /\ cstate \in InnerStatesAt(outer.ro)
        /\ bstate' = [best EXCEPT !.status = DoneStatus(best, step_ok, converged, go_on),
                                  !.outer_iters = @ + 1]
        /\ IF DoneStops(step_ok, converged, go_on)
           THEN outer' = [o EXCEPT !.pc = "returned"]
           ELSE \E lambda \in {LambdaUpdate(outer.lambda, outer.ro, cstate)} :
                \E miu \in {MiuUpdate(outer.miu, outer.ro, cstate)} :
                \E criterion \in {MakeCriterion(cstate, miu, outer.ro)} :
                    outer' = OuterNext(
                        AugmentedUpdate(o, cstate, lambda, miu, criterion, improved))
        /\ last' = [op |-> "iterate", arg |-> <<cstate>>]
        /\ UNCHANGED <<state, raised, ret, constraints, threads, registry>>
        /\ UNCHANGED solve
        /\ UNCHANGED settings

\* solver_penalty_t::done(curr_state, best_state, epsilon): the state it leaves
PenaltyDoneState(curr, best, eps, go_on) ==
    LET copied == [best EXCEPT !.f = curr.f, !.x = curr.x, !.g = curr.g, !.cineq = curr.cineq,
                               !.ceq = curr.ceq,
                               !.fcalls = @ + curr.fcalls, !.gcalls = @ + curr.gcalls,
                               !.inner_iters = @ + curr.inner_iters, !.outer_iters = @ + 1]
        converged == Lt(PenaltySum(copied), eps)
    IN  [copied EXCEPT !.status = IF converged THEN "converged"
                                  ELSE IF ~go_on THEN "stopped" ELSE @]

\* solver_penalty_t::done(curr_state, best_state, epsilon): the value it returns
PenaltyDone(curr, eps, go_on) == Lt(PenaltySum(curr), eps) \/ ~go_on

\* One iteration of solver_linear_penalty_t::minimize or
\* solver_quadratic_penalty_t::minimize with the inner solve returning curr_state
PenaltyIterate(curr_state, answer) ==
    LET go_on == LogResult(has_logger, answer)
        o     == [OuterRecord(outer, curr_state, bstate) EXCEPT
                     !.used = OuterUsed(outer, FALSE)]
    IN  /\ outer.pc = "loop"
        /\ outer.solver \in {"linear-penalty", "quadratic-penalty"}
        /\ bstate' = PenaltyDoneState(curr_state, bstate, epsilon, go_on)
        /\ outer' = IF PenaltyDone(curr_state, epsilon, go_on)
                    THEN [o EXCEPT !.pc = "returned"]
                    ELSE OuterNext([o EXCEPT !.penalty = PenaltyNext(@)])
        /\ last' = [op |-> "iterate", arg |-> <<curr_state>>]
        /\ UNCHANGED <<state, raised, ret, constraints, threads, registry>>
        /\ UNCHANGED solve
        /\ UNCHANGED settings

\* The functions of the constrained solves and the points they are started
\* at: "barrier" also outside its domain.
OuterFunctions == {"sphere", "barrier"}

OuterStarts(f) == IF f = "barrier" THEN {0, Edge + 1} ELSE {0, 1, 3}

InitOuter ==
    /\ \E f \in OuterFunctions : IdleSolver(f, MakeState(f, 0))
    /\ bstate = OuterState("sphere", 0)
    /\ outer = NoOuter
    /\ constraints = << >>
    /\ threads = << >>
    /\ registry = << >>

NextOuter ==
    \/ outer.pc # "loop" /\ \E l \in BOOLEAN : Logger(l)
    \/ \E kind \in OuterSolvers, x0 \in OuterStarts(fn) : OuterMinimize(kind, x0)
    \/ \E cstate \in InnerStates, answer \in Answers : AugmentedIterate(cstate, answer)
    \/ \E curr_state \in InnerStates, answer \in Answers : PenaltyIterate(curr_state, answer)

\* Solves of the constrained solvers, the inner solves returning any state.
SpecOuter == InitOuter /\ [][NextOuter]_vars

\* ------------------------------------------ solver_t::all, lsearchk_t::all
\* The factories behind all(): each a function-local static with its once flag.
Factories == {"solver", "lsearchk"}

\* The identifiers op registers, in the order of its manager.add calls.
Registered(f) ==
    IF f = "solver"
    THEN <<"gd", "cgd", "cgd-n", "cgd-hs", "cgd-fr", "cgd-pr", "cgd-cd", "cgd-ls", "cgd-dy",
           "cgd-dycd", "cgd-dyhs", "cgd-prfr", "osga", "lbfgs", "dfp", "sr1", "bfgs",
           "hoshino", "fletcher", "ellipsoid">>
    ELSE <<"fletcher", "backtrack", "cgdescent", "lemarechal", "morethuente">>

\* A call_once that runs op for every caller.
CallAlways(flag) == "run"

\* std::call_once(flag, op): the first caller runs op, a caller that arrives
\* while op runs waits for it, a caller that arrives after it passes.
CallOnce(flag) ==
    CASE flag = "clear" -> "run"
      [] flag = "running" -> "wait"
      [] OTHER -> "pass"

\* A thread that is not in all() and holds no reference to a factory.
NoCaller == [pc |-> "out", f |-> "solver", k |-> 0, waited |-> FALSE, seen |-> << >>]

\* The factories before the first call of all().
NoRegistry ==
    [flag |-> [f \in Factories |-> "clear"],
     ids |-> [f \in Factories |-> << >>],
     runs |-> [f \in Factories |-> 0],
     callers |-> [i \in Threads |-> NoCaller]]

\* Thread i calls all() of factory f and reaches call_once.
AllCall(i, f) ==
    /\ registry.callers[i].pc \in {"out", "back"}
    /\ \E role \in {CallOnce(registry.flag[f])} :
          registry' =
            IF role = "run"
            THEN [registry EXCEPT !.flag[f] = "running", !.runs[f] = @ + 1,
                                  !.callers[i] = [pc |-> "op", f |-> f, k |-> 0,
                                                  waited |-> FALSE, seen |-> << >>]]
            ELSE IF role = "wait"
            THEN [registry EXCEPT !.callers[i] = [pc |-> "wait", f |-> f, k |-> 0,
                                                  waited |-> TRUE, seen |-> << >>]]
            ELSE [registry EXCEPT !.callers[i] = [pc |-> "back", f |-> f, k |-> 0,
                                                  waited |-> FALSE, seen |-> registry.ids[f]]]
    /\ last' = [op |-> "all", arg |-> <<i, f>>]
    /\ UNCHANGED <<state, raised, ret, bstate, outer, constraints, threads>>
    /\ UNCHANGED solve
    /\ UNCHANGED settings

\* Thread i, running op, makes its next manager.add call.
AllAdd(i) ==
    /\ registry.callers[i].pc = "op"
    /\ registry.callers[i].k < Len(Registered(registry.callers[i].f))
    /\ \E c \in {registry.callers[i]} :
          registry' = [registry EXCEPT !.ids[c.f] = Append(@, Registered(c.f)[c.k + 1]),
                                       !.callers[i].k = @ + 1]
    /\ UNCHANGED <<state, raised, last, ret, bstate, outer, constraints, threads>>
    /\ UNCHANGED solve
    /\ UNCHANGED settings

\* Thread i comes to the end of op: call_once sets the flag and all() returns
\* the factory.
AllDone(i) ==
    /\ registry.callers[i].pc = "op"
    /\ registry.callers[i].k = Len(Registered(registry.callers[i].f))
    /\ \E c \in {registry.callers[i]} :
          registry' = [registry EXCEPT !.flag[c.f] = "set",
                                       !.callers[i].pc = "back",
                                       !.callers[i].seen = registry.ids[c.f]]
    /\ UNCHANGED <<state, raised, last, ret, bstate, outer, constraints, threads>>
    /\ UNCHANGED solve
    /\ UNCHANGED settings

\* Thread i, waiting in call_once, finds the flag set: all() returns the factory.
AllWake(i) ==
    /\ registry.callers[i].pc = "wait"
    /\ registry.flag[registry.callers[i].f] = "set"
    /\ \E c \in {registry.callers[i]} :
          registry' = [registry EXCEPT !.callers[i].pc = "back",
                                       !.callers[i].seen = registry.ids[c.f]]
    /\ UNCHANGED <<state, raised, last, ret, bstate, outer, constraints, threads>>
    /\ UNCHANGED solve
    /\ UNCHANGED settings

InitRegistry ==
    /\ IdleSolver("sphere", MakeState("sphere", 0))
    /\ bstate = [x |-> 0]
    /\ outer = [pc |-> "idle"]
    /\ constraints = << >>
    /\ threads = << >>
    /\ registry = NoRegistry

NextRegistry ==
    \/ \E i \in Threads, f \in Factories : AllCall(i, f)
    \/ \E i \in Threads : AllAdd(i)
    \/ \E i \in Threads : AllDone(i)
    \/ \E i \in Threads : AllWake(i)

\* Threads that call solver_t::all() and lsearchk_t::all() in any interleaving.
SpecRegistry == InitRegistry /\ [][NextRegistry]_vars

\* ------------------------------------------------ solver_sgm_t::do_minimize
\* lambda = 1 / (iteration + 1)^power in grid units, for power = 0.75 and a
\* first step of four grid units: 4, 2.4, 1.8, 1.4, 1.2, ... rounded
SgmLambda(iteration) == IF iteration = 0 THEN 4 ELSE IF iteration <= 2 THEN 2 ELSE 1

\* The loop's guard: function.fcalls() < max_evals
SgmBudget == fcalls < MaxEvals

\* g.lpNorm<Infinity>() for one dimension
SgmNorm(g) == IF g = NaN THEN NaN ELSE IF IsFinite(g) THEN Abs(g) ELSE PInf

\* A loop that takes no gradient for zero.
SgmNeverStationary(g) == FALSE

\* gnorm < std::numeric_limits<scalar_t>::epsilon()
SgmIsStationary(g) == Lt(SgmNorm(g), MachineEps)

\* x -= lambda * g / gnorm, which is not a number when g / gnorm is 0 / 0 or inf / inf
SgmMove(x, g, iteration) ==
    IF IsFinite(g) /\ g # 0 /\ IsFinite(x) THEN x - SgmLambda(iteration) * Sign(g) ELSE NaN

\* nonsmooth_solver_state_t: the iterations since the best state last improved,
\* after update_if_better(x, g, f)
TrackUpdate(stale, st, f) == IF UpdateIfBetterResult(st, f) THEN 0 ELSE stale + 1

\* nonsmooth_solver_state_t::converged: no improvement for patience iterations
TrackConverged(stale) == stale >= SgmPatience

\* The loop ends because the budget is exhausted.
SgmExit ==
    /\ pc = "loop"
    /\ solver = "sgm"
    /\ ~SgmBudget
    /\ pc' = "idle"
    /\ hist' = [hist EXCEPT !.exit = "budget"]
    /\ UNCHANGED <<fn, fcalls, gcalls, solver, epsilon, has_logger, state, loc, raised, last, ret>>
    /\ UNCHANGED settings
    /\ UNCHANGED extra

\* The gradient's norm below machine precision: converged without moving.
SgmStationary(answer) ==
    /\ pc = "loop"
    /\ solver = "sgm"
    /\ SgmBudget
    /\ SgmIsStationary(loc.g)
    /\ state' = DoneState(state, fcalls, gcalls, TRUE, TRUE, has_logger, answer)
    /\ hist' = DoneHist([hist EXCEPT !.outer = @ + 1], state, TRUE, TRUE, has_logger, answer)
    /\ pc' = "idle"
    /\ UNCHANGED <<fn, fcalls, gcalls, solver, epsilon, has_logger, loc, raised, last, ret>>
    /\ UNCHANGED settings
    /\ UNCHANGED extra

\* One iteration of the sub-gradient method.
SgmStep(answer) ==
    /\ pc = "loop"
    /\ solver = "sgm"
    /\ SgmBudget
    /\ ~SgmIsStationary(loc.g)
    /\ \E x1 \in {SgmMove(loc.x, loc.g, loc.iteration)} :
       \E better \in {UpdateIfBetter(state, x1, GradAt(fn, x1), ValueAt(fn, x1))} :
       \E stale \in {TrackUpdate(loc.stale, state, ValueAt(fn, x1))} :
           /\ fcalls' = fcalls + 1
           /\ gcalls' = gcalls + 1
           /\ state' = DoneState(better, fcalls', gcalls', IsFinite(ValueAt(fn, x1)),
                                 TrackConverged(stale), has_logger, answer)
           /\ hist' = DoneHist([hist EXCEPT !.outer = @ + 1], better,
                               IsFinite(ValueAt(fn, x1)), TrackConverged(stale),
                               has_logger, answer)
           /\ pc' = PcAfterDone(better, IsFinite(ValueAt(fn, x1)), TrackConverged(stale),
                                has_logger, answer)
           /\ loc' = [x |-> x1, g |-> GradAt(fn, x1), stale |-> stale,
                      iteration |-> IF pc' = "loop" THEN loc.iteration + 1 ELSE loc.iteration]
    /\ UNCHANGED <<fn, solver, epsilon, has_logger, raised, last, ret>>
    /\ UNCHANGED settings
    /\ UNCHANGED extra

StepSgm ==
    \/ SgmExit
    \/ \E answer \in Answers : SgmStationary(answer)
    \/ \E answer \in Answers : SgmStep(answer)

\* The solvers started at any point, stationary points among them.
AllSolverIds == SolverIds \cup {"sgm", "gd"}

NextStationary ==
    \/ \E l \in BOOLEAN : Logger(l)
    \/ \E e \in Epsilons : SetEpsilon(e)
    \/ \E s \in AllSolverIds, x0 \in X0s : MinimizeError(s, x0)
    \/ \E s \in AllSolverIds, x0 \in X0s : Minimize(s, x0)
    \/ Step
    \/ StepDescent
    \/ StepSgm

\* Solves of every solver from every start.
SpecStationary == InitDescent /\ [][NextStationary]_vars

\* ------------------------------------------------------------------ claims
\* minimize has returned to its caller.
Returned == pc = "idle" /\ hist.exit # "none"

\* The last call to done() was given a failed iteration: iter_ok false or an invalid state.
FailedIteration == hist.dones > 0 /\ ~(hist.iter_ok /\ hist.valid)

\* a <= b for state values, where a value that is not a number only equals itself
Leq(a, b) == a = b \/ Lt(a, b)

\* C1: an outer iteration that fails numerically (iter_ok false, or a state that
\* is not valid) makes minimize halt and return with status failed, never
\* converged, whatever the convergence test says, and without an exception.
C1_FailedIterationFails ==
    FailedIteration => (Returned /\ hist.exit = "done" /\ state.status = "failed" /\ ~raised)

\* C1, the case that diverges: a failed iteration whose convergence test holds.
C1_FailedAndConverged ==
    /\ FailedIteration
    /\ hist.converged
    /\ Returned
    /\ solver = "ellipsoid"
    /\ hist.outer > 1
    /\ state.status = "converged"

\* C2: the logger is consulted exactly once per outer iteration; when it returns
\* false at an iteration that neither converged nor failed, no further iteration
\* runs and the status is stopped; when the iteration converged or failed the
\* logger's answer does not change the status.
C2_LoggerOncePerIteration ==
    /\ hist.logged => hist.logcalls = hist.outer
    /\ (hist.dones > 0 /\ ~hist.logret /\ ~hist.converged /\ ~FailedIteration)
          => (Returned /\ state.status = "stopped")
    /\ (hist.dones > 0 /\ hist.converged) => (Returned /\ state.status = "converged")
    /\ (FailedIteration /\ ~hist.converged) => (Returned /\ state.status = "failed")

\* C2, its case: a logger that returned false stopped the solve.
C2_Stopped ==
    hist.logged /\ hist.outer > 0 /\ ~hist.logret /\ Returned /\ state.status = "stopped"

\* C3 as stated: a solve performs at most max_evals evaluations, values and
\* gradients together, its initial state included.
C3_WithinBudget == hist.cleared => fcalls + gcalls <= MaxEvals

\* The most evaluations one iteration of gradient sampling makes, the final
\* evaluation of the returned point included.
GsIterationEvals == 4 + (LsearchMaxIters + 2) + 2

\* The evaluations of a solve are bounded by the budget and one iteration.
C3_Bound ==
    hist.cleared =>
        CASE solver = "ellipsoid" -> fcalls <= MaxEvals /\ gcalls <= MaxEvals
          [] solver = "fpba1" -> fcalls + gcalls <= (MaxEvals - 1) + 3
          [] solver = "gs" -> fcalls + gcalls <= (MaxEvals - 1) + GsIterationEvals

\* C3, amended: minimize terminates; the budget is tested at the head of an
\* outer iteration only, on the value evaluations alone by the ellipsoid
\* solver, so that the evaluations exceed max_evals by at most one iteration
\* (bundle, gradient sampling) or reach twice max_evals (ellipsoid).
\* Termination: a running solve always has a step to take, and each step
\* either returns or evaluates the function, which the bound allows finitely often.
C3_SoftBudget ==
    /\ [](C3_Bound /\ (pc = "loop" => ENABLED Step))
    /\ [][pc = "loop" => (pc' = "idle" \/ fcalls + gcalls < fcalls' + gcalls')]_vars

\* C3, its case: a solve that returned after more than max_evals evaluations.
C3_Overrun == Returned /\ hist.exit = "budget" /\ fcalls + gcalls > MaxEvals

\* C4: when the budget runs out before convergence and without a failure,
\* minimize returns a valid state with status max_iters.
C4_BudgetStatus ==
    (Returned /\ hist.exit = "budget") => (StateValid(state) /\ state.status = "max_iters")

\* C4, its case: a solve that ran iterations and then ran out of budget.
C4_OutOfBudget == Returned /\ hist.exit = "budget" /\ hist.outer > 1

\* C5: minimize clears the function's counters before solving, and on every
\* exit path the returned state's fcalls and gcalls equal the function's.
C5_CountersReported ==
    Returned => (hist.cleared /\ state.fcalls = fcalls /\ state.gcalls = gcalls)

\* C5, the case that diverges: a return with an evaluation the state misses.
C5_Missed == Returned /\ state.fcalls < fcalls

\* C6: minimize with an x0 whose size differs from the function's raises a
\* hard error before any evaluation and before the counters are cleared; with
\* matching sizes it raises nothing and the solve starts from cleared counters.
C6_SizeMismatchIsHardError ==
    [][(pc = "idle" /\ last'.op = "minimize") =>
          IF Len(last'.arg) # FunctionSize(fn)
          THEN raised' /\ UNCHANGED <<fcalls, gcalls, state, pc, hist, loc>>
          ELSE ~raised' /\ pc' = "loop" /\ hist'.cleared /\ fcalls' = 1 /\ gcalls' = 1]_vars

\* C6, its case: a rejected call made after a solve, the counters as it left them.
C6_Rejected ==
    raised /\ last.op = "minimize" /\ Len(last.arg) # FunctionSize(fn) /\ fcalls > 1

\* C7: lsearch0(id) and lsearchk(id) with an identifier that is not registered
\* raise an error and leave the stored identifier and object as they were;
\* with a registered identifier they replace both together.
C7_LsearchSelection ==
    [][/\ last'.op = "lsearch0" =>
            IF last'.arg[1] \in Lsearch0Ids
            THEN ~raised' /\ m_lsearch0_id' = last'.arg[1] /\ m_lsearch0'.type = last'.arg[1]
            ELSE raised' /\ UNCHANGED <<m_lsearch0_id, m_lsearch0>>
       /\ last'.op = "lsearchk" =>
            IF last'.arg[1] \in LsearchkIds
            THEN ~raised' /\ m_lsearchk_id' = last'.arg[1] /\ m_lsearchk'.type = last'.arg[1]
            ELSE raised' /\ UNCHANGED <<m_lsearchk_id, m_lsearchk>>
       /\ m_lsearch0_id' = m_lsearch0'.type
       /\ m_lsearchk_id' = m_lsearchk'.type]_vars

\* C7, its case: an unknown identifier rejected after a selection away from the default.
C7_RejectedId ==
    /\ raised
    /\ last.op = "lsearchk"
    /\ last.arg[1] \notin LsearchkIds
    /\ m_lsearchk_id = "backtrack"
    /\ m_lsearchk.type = "backtrack"

\* C8: assigning solver::tolerance a pair outside 0 < c1 < c2 < 1 throws and
\* leaves the stored pair unchanged; a pair inside is stored exactly.
C8_ToleranceDomain ==
    [][last'.op = "tolerance" =>
          IF 0 < last'.arg[1] /\ last'.arg[1] < last'.arg[2] /\ last'.arg[2] < One
          THEN ~raised' /\ tolerance' = last'.arg
          ELSE raised' /\ tolerance' = tolerance]_vars

\* C8, its case: a pair out of the domain rejected, another pair than the default stored.
C8_RejectedPair == raised /\ last.op = "tolerance" /\ tolerance = <<1000, 9000>>

\* C9: update_if_better(x, f) overwrites the state's point and value and
\* returns true exactly when f is finite and strictly below the current
\* value; a greater, equal or NaN f returns false and changes nothing.
C9_UpdateIfBetter ==
    [][last'.op = "update_if_better" =>
          IF IsFinite(last'.arg[2]) /\ state.f # NaN /\ last'.arg[2] < state.f
          THEN ret' /\ state'.x = last'.arg[1] /\ state'.f = last'.arg[2]
          ELSE ~ret' /\ state' = state]_vars

\* C9, its case: a candidate as good as the state's value, refused.
C9_TieRefused ==
    last.op = "update_if_better" /\ last.arg[2] = state.f /\ ~ret /\ last.arg[1] # state.x

C11_ConstrainedAcceptance ==
    [][last'.op = "update_if_better_constrained" =>
        LET cand == last'.arg[1]
            eps == last'.arg[2]
            finite == /\ IsFinite(cand.f) /\ IsFinite(cand.x) /\ IsFinite(cand.g)
                      /\ IsFinite(cand.t) /\ IsFinite(cand.cineq)
            viol(st) == IF st.cineq > 0 THEN st.cineq ELSE 0
            infeasible == bstate.cineq > eps
            noworse == /\ bstate.f # NaN
                       /\ cand.f <= bstate.f
                       /\ viol(cand) <= viol(bstate)
        IN  /\ ~finite => ~ret'
            /\ finite => (ret' <=> (infeasible \/ noworse))
            /\ ~ret' => bstate' = bstate
            /\ ret' => /\ bstate'.x = cand.x /\ bstate'.f = cand.f
                       /\ bstate'.g = cand.g /\ bstate'.cineq = cand.cineq
            /\ (bstate.cineq <= eps /\ finite /\ cand.cineq > eps /\ Lt(bstate.f, cand.f))
                    => (~ret' /\ bstate' = bstate)]_vars

\* A feasible incumbent has just refused an infeasible candidate of lower value.
C11_InfeasibleRefused ==
    /\ last.op = "update_if_better_constrained"
    /\ ~ret
    /\ ConstrainedValid(last.arg[1])
    /\ last.arg[1].cineq > last.arg[2]
    /\ bstate.cineq <= last.arg[2]
    /\ Lt(last.arg[1].f, bstate.f)

\* C12: has_descent() is true exactly when d.g < 0, and lsearchk_t::get called
\* on a state without a descent direction returns false at once: no
\* evaluation of the function, no call of the line-search logger, and the
\* state is left as it was.
C12_NoDescentRefused ==
    [][last'.op = "lsearchk_get" =>
        LET dg == Times(state.d, state.g)
            descent == dg # NaN /\ dg < 0
        IN  /\ hist'.ls.refused <=> ~descent
            /\ ~descent => /\ ret' = FALSE
                           /\ state' = state
                           /\ fcalls' = fcalls /\ gcalls' = gcalls
                           /\ hist'.ls.trials = 0]_vars

\* A line-search was refused for a zero direction at a point with a gradient.
C12_ZeroDirection ==
    /\ last.op = "lsearchk_get"
    /\ hist.ls.refused
    /\ state.d = 0 /\ IsFinite(state.g) /\ state.g # 0
    /\ ~ret /\ fcalls = 1

\* C13: lsearchk_t::get returns true only if the strategy accepted the step
\* and the state it leaves is valid; it returns false when the strategy ran
\* out of iterations or found no valid step, and in particular when every one
\* of the max_iterations initial trial steps gave a state that is not valid.
C13_TrueOnlyIfAcceptedAndValid ==
    (hist.ls.called /\ ~hist.ls.refused) =>
        /\ hist.ls.ok => (hist.ls.accepted /\ StateValid(hist.ls.state))
        /\ ~hist.ls.accepted => ~hist.ls.ok
        /\ ~StateValid(hist.ls.state) => ~hist.ls.ok
        /\ (hist.ls.initial = LsearchkMaxIterations /\ ~hist.ls.found) => ~hist.ls.ok

\* Every initial trial was invalid, the strategy accepted the last one (a
\* value of -inf) and the line-search still returned false.
C13_AcceptedButInvalid ==
    /\ hist.ls.called /\ ~hist.ls.refused
    /\ hist.ls.initial = LsearchkMaxIterations /\ ~hist.ls.found
    /\ hist.ls.accepted
    /\ ~hist.ls.ok

C15_ConstrainCompatible ==
    [][last'.op = "constrain" =>
        LET c == last'.arg[1]
            n == FunctionSize(fn)
            fits == \/ c.kind \in {"constant", "minimum", "maximum"} /\ c.dim \in 0..(n - 1)
                    \/ c.kind \in {"euclidean_ball_inequality", "linear_equality"} /\ c.dim = n
        IN  /\ ret' <=> fits
            /\ ~raised'
            /\ fits => constraints' = constraints \o <<c>>
            /\ ~fits => constraints' = constraints
            /\ c = DefaultConstraint => (~ret' /\ constraints' = constraints)]_vars

\* A constraint on the coordinate one past the last was refused by a
\* function that already holds a constraint.
C15_RefusedPastTheEnd ==
    /\ last.op = "constrain"
    /\ last.arg[1].kind = "minimum" /\ last.arg[1].dim = FunctionSize(fn)
    /\ ~ret
    /\ Len(constraints) > 0

\* C16: minimize never changes the line-search objects registered on the
\* solver: a solve works on the clones make_lsearch gives it, so that two
\* minimize calls interleaved on one solver from two threads (each with its
\* own function) share no line-search history, and each returns what it
\* would have returned alone.
C16_SolvesAreIsolated ==
    /\ [](\A i \in Threads :
            /\ threads[i].pc \in {"loop", "returned"} =>
                  /\ Len(threads[i].trace) <= Len(Solo(threads[i].fn, threads[i].x0).trace)
                  /\ threads[i].trace =
                        SubSeq(Solo(threads[i].fn, threads[i].x0).trace, 1, Len(threads[i].trace))
            /\ threads[i].pc = "returned" =>
                  /\ threads[i].state = Solo(threads[i].fn, threads[i].x0).state
                  /\ threads[i].trace = Solo(threads[i].fn, threads[i].x0).trace)
    /\ [][m_lsearch0' = m_lsearch0 /\ m_lsearchk' = m_lsearchk]_vars

\* Both threads are in the middle of a solve, each past an iteration whose
\* step was proposed from the history of its own earlier iteration.
C16_Interleaved ==
    /\ \A i \in Threads : threads[i].pc = "loop" /\ Len(threads[i].trace) >= 2
    /\ threads[1].fn # threads[2].fn
    /\ threads[1].lsearch0 # threads[2].lsearch0
    /\ m_lsearch0 = FactoryGet(Lsearch0Ids, "quadratic")

\* A sequence is the beginning of another.
IsPrefix(a, b) == Len(a) <= Len(b) /\ a = SubSeq(b, 1, Len(a))

\* C17: two successive minimize calls on one line-search solver with the same
\* function, x0 and parameters go through the same trial steps and iterates
\* and return the same state: neither the line-search history nor the
\* evaluation counters of the first solve reach the second, which runs as a
\* solve made alone on history-free objects does.
C17_RepeatedSolve ==
    (solver = "gd" /\ last.op = "minimize" /\ ~raised /\ "trace" \in DOMAIN loc) =>
        /\ IsPrefix(loc.trace, Solo(fn, last.arg[1]).trace)
        /\ (Returned /\ state.status # "stopped") =>
              /\ state = Solo(fn, last.arg[1]).state
              /\ loc.trace = Solo(fn, last.arg[1]).trace
        /\ (loc.repeat /\ loc.before.state.status # "stopped") =>
              /\ IsPrefix(loc.trace, loc.before.trace)
              /\ (Returned /\ state.status # "stopped") =>
                    (state = loc.before.state /\ loc.trace = loc.before.trace)

\* A solve of several iterations was repeated and has returned again.
C17_SolvedTwice ==
    /\ solver = "gd" /\ last.op = "minimize" /\ ~raised /\ "trace" \in DOMAIN loc
    /\ loc.repeat
    /\ Returned /\ state.status # "stopped"
    /\ Len(loc.trace) >= 3
    /\ \E i \in 1..Len(loc.trace) : loc.trace[i][1] < TUnit
    /\ loc.trace = loc.before.trace

\* The augmented-Lagrangian loop alone: an inner result that is not valid ends
\* the solve with status failed and the incumbent as it was.
AugmentedStopsOnInvalid ==
    (outer.pc # "idle" /\ outer.solver = "augmented-lagrangian" /\ outer.invalid) =>
        /\ outer.pc = "returned"
        /\ bstate.status = "failed"
        /\ bstate.x = outer.before.x /\ bstate.f = outer.before.f /\ bstate.g = outer.before.g

\* C18: once an inner solve of a constrained outer loop has returned a state
\* that is not valid, the outer loop has stopped, the state it hands back has
\* status failed, and its point, value and gradient are those of the incumbent
\* before that inner solve, never those of the invalid inner result.
C18_InvalidInnerStops ==
    (outer.pc # "idle" /\ outer.invalid) =>
        /\ outer.pc = "returned"
        /\ bstate.status = "failed"
        /\ bstate.x = outer.before.x /\ bstate.f = outer.before.f /\ bstate.g = outer.before.g

\* A penalty solve has returned the point of an invalid inner result, and the
\* status does not say failed.
C18_InvalidCopied ==
    /\ outer.pc = "returned"
    /\ outer.solver \in {"linear-penalty", "quadratic-penalty"}
    /\ outer.invalid
    /\ ~IsFinite(bstate.x)
    /\ bstate.status # "failed"

\* C19: the solver and line-search registries are populated exactly once, by
\* the first call of all(), also when threads call all() concurrently: op is
\* run at most once per factory and the identifiers are registered in order,
\* none twice; every thread that all() has returned to finds every identifier
\* registered, and what it found is what the factory still holds.
C19_RegisteredOnce ==
    \A f \in Factories :
        /\ registry.runs[f] <= 1
        /\ IsPrefix(registry.ids[f], Registered(f))
        /\ \A k, l \in 1..Len(registry.ids[f]) :
              registry.ids[f][k] = registry.ids[f][l] => k = l
        /\ \A i \in Threads :
              (registry.callers[i].pc = "back" /\ registry.callers[i].f = f) =>
                  /\ registry.flag[f] = "set"
                  /\ registry.callers[i].seen = Registered(f)
                  /\ registry.ids[f] = registry.callers[i].seen

\* Two threads called solver_t::all() before the factory was populated: one
\* ran op, the other waited for it, and both are back.
C19_RacedOnFirstCall ==
    \E i, j \in Threads :
        /\ i # j
        /\ registry.callers[i].pc = "back" /\ registry.callers[i].f = "solver"
        /\ registry.callers[j].pc = "back" /\ registry.callers[j].f = "solver"
        /\ registry.callers[j].waited
        /\ registry.runs["solver"] = 1
        /\ Len(registry.ids["solver"]) = 20

\* The last call was a minimize from a point where the gradient is exactly zero.
FromStationary ==
    /\ last.op = "minimize"
    /\ ~raised
    /\ Len(last.arg) = 1
    /\ GradAt(fn, last.arg[1]) = 0

\* The solve has not moved, nor evaluated the function again.
StillAtStart ==
    /\ state.x = last.arg[1]
    /\ state.f = ValueAt(fn, last.arg[1])
    /\ fcalls = 1

\* C20 as stated, for every solver: a minimize from a stationary point returns
\* status converged with x = x0 and f = f(x0), without a step and without a
\* function evaluation beyond the one of the initial state.
C20_StationaryStart ==
    FromStationary =>
        /\ StillAtStart
        /\ pc = "idle" => state.status = "converged"

\* C20: with the ellipsoid method, the sub-gradient method or a line-search
\* descent solver, a minimize from a stationary point returns status converged
\* with x = x0 and f = f(x0), without a step and without a function evaluation
\* beyond the one of the initial state.
C20_StationaryStartTested ==
    (FromStationary /\ solver \in {"ellipsoid", "sgm", "gd"}) =>
        /\ StillAtStart
        /\ pc = "idle" => state.status = "converged"

\* The sub-gradient method has returned from a solve started at a stationary point.
C20_ReturnedAtOnce ==
    /\ FromStationary
    /\ solver = "sgm"
    /\ pc = "idle"
    /\ hist.dones = 1
    /\ state.status = "converged"

\* The last iteration of the augmented-Lagrangian loop did not break: it went
\* on to update the multipliers, the penalty and the inner accuracy.
AugmentedUpdated ==
    /\ outer.pc # "idle"
    /\ outer.solver = "augmented-lagrangian"
    /\ outer.solves > 0
    /\ outer.outer = outer.used.outer + 1

\* std::clamp(v, lo, hi) of a finite v
Clamp(v, lo, hi) == IF v < lo THEN lo ELSE IF v > hi THEN hi ELSE v

\* C21: in the augmented-Lagrangian outer loop the equality multiplier lies in
\* [lambda_min, lambda_max] and the inequality multiplier in [0, miu_max], and
\* after every multiplier update lambda = clamp(lambda + ro * h(x), lambda_min,
\* lambda_max) and miu = clamp(max(miu + ro * g(x), 0), 0, miu_max), with h(x)
\* and g(x) of the inner solve's result and the ro that inner solve was made with.
C21_MultipliersClamped ==
    (outer.pc # "idle" /\ outer.solver = "augmented-lagrangian") =>
        /\ LambdaMin <= outer.lambda /\ outer.lambda <= LambdaMax
        /\ 0 <= outer.miu /\ outer.miu <= MiuMax
        /\ AugmentedUpdated =>
              /\ IsFinite(outer.used.ro)
              /\ ConstrainedValid(outer.cstate)
              /\ outer.lambda = Clamp(outer.used.lambda + outer.used.ro * outer.cstate.ceq,
                                      LambdaMin, LambdaMax)
              /\ outer.miu = Clamp(StdMax(outer.used.miu + outer.used.ro * outer.cstate.cineq, 0),
                                   0, MiuMax)

\* A multiplier update where both clamps cut: the sum for the equality
\* multiplier is below lambda_min, the sum for the inequality multiplier above
\* miu_max.
C21_ClampedAtTheBounds ==
    /\ AugmentedUpdated
    /\ outer.used.ro > RoMin
    /\ outer.used.lambda + outer.used.ro * outer.cstate.ceq < LambdaMin
    /\ outer.lambda = LambdaMin
    /\ outer.used.miu + outer.used.ro * outer.cstate.cineq > MiuMax
    /\ outer.miu = MiuMax

\* What C22 says of the penalty of a running or finished augmented-Lagrangian
\* solve: it starts in [ro_min, ro_max], it is positive, and an iteration
\* leaves it as it was unless an earlier iteration exists and the criterion
\* exceeds tau times the one before, in which case it is multiplied by gamma.
PenaltyGrowth ==
    /\ IsFinite(outer.ro) /\ outer.ro > 0
    /\ outer.solves = 0 => (RoMin <= outer.ro /\ outer.ro <= RoMax)
    /\ outer.ro >= outer.used.ro
    /\ outer.used.outer = 0 => outer.ro = outer.used.ro
    /\ ~AugmentedUpdated => outer.ro = outer.used.ro
    /\ AugmentedUpdated =>
          IF outer.used.outer > 0
             /\ TauInverse * outer.old_criterion > outer.used.old_criterion
          THEN outer.ro = Gamma * outer.used.ro
          ELSE outer.ro = outer.used.ro

\* C22 as stated: in every augmented-Lagrangian solve the penalty starts in
\* [1e-6, 10], is multiplied by gamma at the end of an outer iteration only if
\* a previous outer iteration exists and the criterion exceeds tau times the
\* previous one, and is otherwise unchanged: it is positive, never decreases,
\* and is not grown at the first outer iteration.
C22_PenaltyGrowth ==
    (outer.pc # "idle" /\ outer.solver = "augmented-lagrangian") => PenaltyGrowth

\* C22: the same for an augmented-Lagrangian solve started at a point where
\* the function's value is a number; started where the value is not a number
\* the penalty is not a number either, and the solve returns from its first
\* outer iteration with status failed.
C22_PenaltyGrowthFromANumber ==
    (outer.pc # "idle" /\ outer.solver = "augmented-lagrangian") =>
        IF outer.f0 # NaN
        THEN PenaltyGrowth
        ELSE /\ outer.ro = NaN
             /\ outer.solves <= 1
             /\ outer.solves = 1 => (outer.pc = "returned" /\ bstate.status = "failed")

\* The second outer iteration has grown the penalty.
C22_Grown ==
    /\ AugmentedUpdated
    /\ outer.used.outer > 0
    /\ outer.ro = Gamma * outer.used.ro
    /\ outer.ro > RoMax

\* The last outer iteration called more_precise on the inner solver.
Tightened == outer.precise = outer.used.precise + 1

\* The last outer iteration grew the penalty.
GrewPenalty == IsFinite(outer.used.ro) /\ outer.ro # outer.used.ro

\* C23: in the augmented-Lagrangian outer loop the inner solver's accuracy is
\* tightened (more_precise) only at an outer iteration that kept the penalty
\* and improved the incumbent; an iteration that grows the penalty does not
\* tighten it.
C23_TightenedOnlyIfKept ==
    AugmentedUpdated =>
        /\ Tightened => (~GrewPenalty /\ outer.used.improved)
        /\ GrewPenalty => ~Tightened

\* An outer iteration that improved the incumbent has both grown the penalty
\* and tightened the inner accuracy.
C23_GrownAndTightened ==
    /\ AugmentedUpdated
    /\ outer.used.improved
    /\ GrewPenalty
    /\ Tightened

\* What the loop does: the inner accuracy is tightened at exactly the outer
\* iterations that went on and improved the incumbent, whatever the penalty did.
TightenedIffImproved ==
    (outer.pc # "idle" /\ outer.solver = "augmented-lagrangian") =>
        (Tightened <=> (AugmentedUpdated /\ outer.used.improved))

\* A running or finished solve of a penalty solver.
PenaltySolve == outer.pc # "idle" /\ outer.solver \in {"linear-penalty", "quadratic-penalty"}

\* The weights of the inner solves: penalty0 for the first, and eta2 times the
\* weight before for every further one, hence strictly increasing.
PenaltyWeights ==
    /\ outer.solves = 0 => outer.penalty = Penalty0
    /\ outer.solves > 0 =>
          IF outer.outer = outer.used.outer + 1
          THEN outer.penalty = Eta2 * outer.used.penalty /\ outer.penalty > outer.used.penalty
          ELSE outer.penalty = outer.used.penalty
    /\ outer.pc = "loop" => outer.solves = outer.outer

\* eta2^k
RECURSIVE Eta2Power(_)
Eta2Power(k) == IF k = 0 THEN 1 ELSE Eta2 * Eta2Power(k - 1)

\* The violation of the latest inner solution is below epsilon.
LatestFeasible == outer.solves > 0 /\ Lt(PenaltySum(outer.cstate), epsilon)

\* C24 as stated: the weight starts at penalty0 and is multiplied by eta2
\* after every outer iteration that does not terminate; the loop stops with
\* status converged as soon as the violation of the latest inner solution is
\* below epsilon, and otherwise after exactly max_outer_iters inner solves.
C24_PenaltySchedule ==
    PenaltySolve =>
        /\ PenaltyWeights
        /\ LatestFeasible => (outer.pc = "returned" /\ bstate.status = "converged")
        /\ (outer.pc = "returned" /\ ~LatestFeasible) => outer.solves = MaxOuterIters
        /\ outer.solves <= MaxOuterIters

\* C24: the same, with the third way out of the loop: a logger that answers
\* false stops it after that inner solve, with status stopped unless the solve
\* has converged.
C24_PenaltyScheduleOrStopped ==
    PenaltySolve =>
        /\ PenaltyWeights
        /\ outer.penalty = Penalty0 * Eta2Power(outer.outer)
        /\ LatestFeasible => (outer.pc = "returned" /\ bstate.status = "converged")
        /\ (outer.pc = "returned" /\ ~LatestFeasible) =>
              \/ outer.solves = MaxOuterIters /\ bstate.status = "max_iters"
              \/ bstate.status = "stopped"
        /\ outer.solves <= MaxOuterIters

\* A penalty solve has run all its outer iterations without converging, each
\* with a heavier weight.
C24_Exhausted ==
    /\ PenaltySolve
    /\ outer.pc = "returned"
    /\ ~outer.invalid
    /\ outer.solves = MaxOuterIters
    /\ bstate.status = "max_iters"
    /\ outer.penalty > Penalty0

\* The last iteration of a gradient-sampling solve did not terminate it.
GsWentOn == solver = "gs" /\ hist.gs.went_on

\* The last iteration's line-search ran and accepted no trial.
GsLsearchFailed == ~hist.gs.small /\ ~hist.gs.accepted

\* The threshold miuk and the radius epsilonk after the last iteration, as
\* numbers of halvings: kept, or shrunk by theta_miu resp. theta_epsilon.
MiuKept == loc.miu_shift = hist.gs.miu_shift

MiuShrunk == loc.miu_shift = hist.gs.miu_shift + 1

EpsilonKept == loc.eps_shift = hist.gs.eps_shift

EpsilonShrunk == loc.eps_shift = hist.gs.eps_shift + 1

\* C25 as stated: a non-terminating iteration of gradient sampling whose
\* stabilized gradient norm is at most miuk, or whose line-search fails,
\* shrinks both miuk and epsilonk; one whose line-search succeeds changes neither.
C25_BothShrunk ==
    (GsWentOn /\ pc = "loop") =>
        /\ (hist.gs.small \/ GsLsearchFailed) => (MiuShrunk /\ EpsilonShrunk)
        /\ (~hist.gs.small /\ hist.gs.accepted) => (MiuKept /\ EpsilonKept)

\* C25: a non-terminating iteration of gradient sampling whose stabilized
\* gradient norm is at most miuk shrinks both miuk and epsilonk; one whose
\* line-search fails shrinks epsilonk alone and keeps miuk; one whose
\* line-search succeeds changes neither.
C25_RadiusShrunk ==
    (GsWentOn /\ pc = "loop") =>
        /\ hist.gs.small => (MiuShrunk /\ EpsilonShrunk)
        /\ GsLsearchFailed => (MiuKept /\ EpsilonShrunk)
        /\ (~hist.gs.small /\ hist.gs.accepted) => (MiuKept /\ EpsilonKept)

\* An iteration whose line-search failed: the radius is shrunk, the threshold kept.
C25_FailedLsearch ==
    /\ GsWentOn
    /\ pc = "loop"
    /\ GsLsearchFailed
    /\ MiuKept
    /\ EpsilonShrunk

\* The last iteration of a bundle solve did not terminate it.
FpbaWentOn == solver = "fpba1" /\ pc = "loop" /\ hist.fpba.went_on

\* f(z) - model(z) <= (1 - sigma) * (f(x) - model(z)) at the last iteration,
\* for sigma = 1/2 and finite values
FpbaDescent ==
    2 * (hist.fpba.fz - hist.fpba.bz) <= hist.fpba.fx - hist.fpba.bz

\* The last iteration was a serious step: the stability center has moved to a
\* point extrapolated from z, y is z, f(x) is the value at the new center,
\* and the bundle is as it was.
FpbaSeriousStep ==
    /\ loc.serious = hist.fpba.serious + 1
    /\ loc.y = hist.fpba.z
    /\ loc.x # hist.fpba.x
    /\ loc.fx = ValueAt(fn, loc.x)
    /\ loc.points = hist.fpba.points

\* The last iteration was a null step: x, y and f(x) are as they were and the
\* bundle has one more plane, (f(z), g(z), g(z).z).
FpbaNullStep ==
    /\ loc.serious = hist.fpba.serious
    /\ loc.x = hist.fpba.x /\ loc.y = hist.fpba.y /\ loc.fx = hist.fpba.fx
    /\ Len(loc.points) = Len(hist.fpba.points) + 1
    /\ SubSeq(loc.points, 1, Len(hist.fpba.points)) = hist.fpba.points
    /\ loc.points[Len(loc.points)] =
          [f |-> hist.fpba.fz, g |-> hist.fpba.gz, gdotz |-> hist.fpba.gz * hist.fpba.z]

\* C26: every non-terminating iteration of the bundle solver is exactly one
\* of a serious step, taken iff f(z) - model(z) <= (1 - sigma)(f(x) - model(z)),
\* which moves the stability center and leaves the bundle unchanged, and a
\* null step, which leaves x, y and f(x) unchanged and appends exactly one
\* cutting plane (f(z), g(z), g(z).z) to the bundle.
C26_SeriousOrNull ==
    FpbaWentOn =>
        /\ IsFinite(hist.fpba.fz) /\ IsFinite(hist.fpba.bz) /\ IsFinite(hist.fpba.fx)
        /\ IF FpbaDescent
           THEN FpbaSeriousStep /\ ~FpbaNullStep
           ELSE FpbaNullStep /\ ~FpbaSeriousStep

\* A null step after a serious step: the bundle has grown, the center has not moved.
C26_NullAfterSerious ==
    /\ FpbaWentOn
    /\ ~FpbaDescent
    /\ FpbaNullStep
    /\ hist.fpba.serious > 0

\* The size a bundle holding a bound of its own would keep within the solves
\* of this model: the budget of evaluations allows more null steps than this.
BundleCap == MaxEvals \div 2 - 1

\* The bundle holds the plane of the starting point and one plane for each
\* null step of the solve: no plane is ever removed.
BundleOnePlanePerNullStep ==
    (solver = "fpba1" /\ pc \in {"loop", "returned"}) =>
        Len(loc.points) = 1 + hist.fpba.nulls

\* C27: during a bundle-method solve the number of cutting planes held in the
\* bundle stays below a fixed bound independent of the number of null steps,
\* the least-active planes being evicted when the bound is reached.
C27_BundleBounded ==
    (solver = "fpba1" /\ pc \in {"loop", "returned"}) => Len(loc.points) <= BundleCap

\* The bundle has grown past the cap, by one plane for each null step.
C27_BundleGrown ==
    /\ solver = "fpba1" /\ pc = "loop"
    /\ hist.fpba.nulls = BundleCap
    /\ Len(loc.points) = BundleCap + 1

\* The last iteration of an ellipsoid solve made its move.
EllipsoidMoved == solver = "ellipsoid" /\ hist.ellipsoid.moved

\* The move of the last iteration: x changed by exactly H, upwards for a
\* negative gradient and downwards for a positive one, and H was halved.
EllipsoidBisected ==
    /\ hist.ellipsoid.H > 0
    /\ Abs(loc.x - hist.ellipsoid.x) = hist.ellipsoid.H
    /\ Lt(hist.ellipsoid.g, 0) => loc.x = hist.ellipsoid.x + hist.ellipsoid.H
    /\ Lt(0, hist.ellipsoid.g) => loc.x = hist.ellipsoid.x - hist.ellipsoid.H
    /\ 2 * loc.H = hist.ellipsoid.H
    /\ 0 < loc.H /\ loc.H < hist.ellipsoid.H

\* The solve stopped at its last iteration with status converged.
EllipsoidStoppedConverged == pc = "idle" /\ hist.exit = "done" /\ state.status = "converged"

\* C28: for a one-dimensional function every iteration of the ellipsoid
\* solver moves x by exactly H in the direction opposite to the sign of the
\* gradient and then halves H, which stays strictly positive and strictly
\* decreases; and the solve stops with status converged at the first
\* iteration whose test sqrt(gHg) < epsilon holds.
C28_Bisection ==
    EllipsoidMoved =>
        /\ EllipsoidBisected
        /\ hist.ellipsoid.converged => EllipsoidStoppedConverged
        /\ (pc = "loop" \/ hist.exit = "budget") => ~hist.ellipsoid.converged

\* The test held at an iteration that was not the first of its solve.
C28_ConvergedAfterBisecting ==
    /\ EllipsoidMoved
    /\ hist.ellipsoid.converged
    /\ EllipsoidStoppedConverged
    /\ hist.ellipsoid.H < H0
    /\ Lt(hist.ellipsoid.g, 0)

\* The last line-search went past its descent test and ran its initial phase.
LsearchkSearched == hist.ls.called /\ ~hist.ls.refused

\* t * 0.5^k
HalvedTimes(t, k) == t \div (2 ^ k)

\* The point a trial of step t from x0 along d lands on.
TrialPoint(x0, d, t) == LsUpdate(fn, [x |-> x0, d |-> d, f |-> 0, g |-> 0, t |-> 0], t).x

\* C29: the initial phase of lsearchk's get evaluates at most
\* lsearchk::max_iterations trial steps: every trial starts from the same base
\* state state0 (step 0), the step of a trial after one that gave an invalid
\* state is half the step of that one, the phase ends at the first valid
\* trial, and the line-search logger is invoked exactly once per trial.
C29_InitialPhase ==
    LsearchkSearched =>
        /\ 1 <= hist.ls.initial /\ hist.ls.initial <= LsearchkMaxIterations
        /\ Len(hist.ls.logged) = hist.ls.initial
        /\ \A i \in 1..Len(hist.ls.logged) :
              /\ hist.ls.logged[i].t0 = 0
              /\ hist.ls.logged[i].x0 = hist.ls.logged[1].x0
              /\ hist.ls.logged[i].t = HalvedTimes(hist.ls.first, i - 1)
              /\ hist.ls.logged[i].x =
                    TrialPoint(hist.ls.logged[i].x0, hist.ls.state.d, hist.ls.logged[i].t)
              /\ i < Len(hist.ls.logged) => ~hist.ls.logged[i].valid
        /\ hist.ls.found <=> hist.ls.logged[Len(hist.ls.logged)].valid
        /\ ~hist.ls.found => hist.ls.initial = LsearchkMaxIterations

\* The first trial gave an invalid state and the second, at half the step
\* from the same base, a valid one.
C29_HalvedOnce ==
    /\ LsearchkSearched
    /\ hist.ls.initial = 2 /\ hist.ls.found
    /\ ~hist.ls.logged[1].valid
    /\ hist.ls.logged[2].t < hist.ls.logged[1].t
    /\ hist.ls.logged[2].x # hist.ls.logged[1].x

\* ------------------------------------------------------- nano::grad_accuracy
\* The functions whose gradients are checked, of two dimensions: the sum of
\* the cubes, the same plus 3, and the same rounded down to a multiple of 8
\* (values that cancel at small steps).
AccuracyFunctions == {"cubic", "shifted", "rounded"}

RECURSIVE SumCubes(_)
SumCubes(x) == IF x = << >> THEN 0 ELSE Head(x) * Head(x) * Head(x) + SumCubes(Tail(x))

\* function.vgrad(x): the value
AccuracyValue(f, x) ==
    CASE f = "cubic" -> SumCubes(x)
      [] f = "shifted" -> SumCubes(x) + 3
      [] f = "rounded" -> (SumCubes(x) \div 8) * 8

\* function.vgrad(x, gx): the analytical gradient, in units of 1 / One
AccuracyGradient(f, x) == [i \in 1..Len(x) |-> 3 * x[i] * x[i] * One]

\* The finite-difference steps dx that are tried, in grid units.
AccuracySteps == <<1, 2, 3>>

\* epsilon2: the one step of function_t::grad_accuracy
Epsilon2 == 2

\* dx * std::max(scalar_t{1}, std::fabs(x(i)))
AccuracyStep(dx, xi) == dx * StdMax(1, Abs(xi))

\* The loop over the coordinates from i on: xp and xn get coordinate i - 1
\* back from x and coordinate i perturbed, and gx_approx(i) = dfi / dxi.
RECURSIVE ApproxFrom(_, _, _, _, _, _)
ApproxFrom(f, x, dx, i, xp, xn) ==
    IF i > Len(x) THEN << >>
    ELSE LET xp1 == [(IF i > 1 THEN [xp EXCEPT ![i - 1] = x[i - 1]] ELSE xp)
                        EXCEPT ![i] = x[i] + AccuracyStep(dx, x[i])]
             xn1 == [(IF i > 1 THEN [xn EXCEPT ![i - 1] = x[i - 1]] ELSE xn)
                        EXCEPT ![i] = x[i] - AccuracyStep(dx, x[i])]
         IN  <<[xp |-> xp1, xn |-> xn1,
                g |-> ((AccuracyValue(f, xp1) - AccuracyValue(f, xn1)) * One)
                          \div (xp1[i] - xn1[i])]>>
             \o ApproxFrom(f, x, dx, i + 1, xp1, xn1)

\* (gx - gx_approx).lpNorm<Eigen::Infinity>()
InfNorm(gx, approx) ==
    CHOOSE m \in {Abs(gx[i] - approx[i].g) : i \in 1..Len(gx)} :
        \A i \in 1..Len(gx) : Abs(gx[i] - approx[i].g) <= m

\* The discrepancy of the step dx, before it is normalized.
Discrepancy(f, x, dx) == InfNorm(AccuracyGradient(f, x), ApproxFrom(f, x, dx, 1, x, x))

\* 1.0 + std::fabs(fx)
Normalizer(f, x) == 1 + Abs(AccuracyValue(f, x))

\* std::numeric_limits<scalar_t>::max()
DoubleMax == 0 - Lowest

\* A running minimum of candidates that are normalized once:
\* std::min(dg, norm / (1.0 + std::fabs(fx)))
AccuracyMinOnce(dg, norm, fx1) == StdMin(dg, norm \div fx1)

\* dg = std::min(dg, norm) / (1.0 + std::fabs(fx))
AccuracyMin(dg, norm, fx1) == StdMin(dg, norm) \div fx1

\* The loop over the steps from the k-th on, with the running dg and the
\* steps tried so far: it breaks once dg < desired_accuracy.
RECURSIVE AccuracyLoop(_, _, _, _, _)
AccuracyLoop(f, x, desired, k, dg) ==
    IF k > Len(AccuracySteps) THEN [dg |-> dg, tried |-> k - 1]
    ELSE IF AccuracyMin(dg, Discrepancy(f, x, AccuracySteps[k]), Normalizer(f, x)) < desired
    THEN [dg |-> AccuracyMin(dg, Discrepancy(f, x, AccuracySteps[k]), Normalizer(f, x)),
          tried |-> k]
    ELSE AccuracyLoop(f, x, desired, k + 1,
                      AccuracyMin(dg, Discrepancy(f, x, AccuracySteps[k]), Normalizer(f, x)))

\* nano::grad_accuracy(function, x, desired_accuracy): the value returned,
\* the steps tried and the points every one of them evaluated.
GradAccuracy(f, x, desired) ==
    [dg |-> AccuracyLoop(f, x, desired, 1, DoubleMax).dg,
     tried |-> AccuracyLoop(f, x, desired, 1, DoubleMax).tried,
     points |-> [k \in 1..AccuracyLoop(f, x, desired, 1, DoubleMax).tried |->
                    ApproxFrom(f, x, AccuracySteps[k], 1, x, x)]]

\* function_t::grad_accuracy(x): one step, epsilon2, normalized at the return
FunctionGradAccuracy(f, x) ==
    [dg |-> Discrepancy(f, x, Epsilon2) \div Normalizer(f, x),
     tried |-> 1,
     points |-> <<ApproxFrom(f, x, Epsilon2, 1, x, x)>>]

\* The points the gradient is checked at and the accuracies asked for, in
\* units of 1 / One.
AccuracyPoints == {<<a, b>> : a, b \in {-2, 0, 1, 2}}

DesiredAccuracies == {0, One, 4 * One}

\* A call of the free function: one value and gradient evaluation at x, then
\* two value evaluations for every coordinate of every step tried.
GradAccuracyCall(x, desired) ==
    /\ fcalls < MaxEvals
    /\ Len(x) = FunctionSize(fn)
    /\ \E r \in {GradAccuracy(fn, x, desired)} :
           /\ ret' = r
           /\ fcalls' = fcalls + 1 + 2 * Len(x) * r.tried
    /\ gcalls' = gcalls + 1
    /\ last' = [op |-> "grad_accuracy", arg |-> <<x, desired>>]
    /\ UNCHANGED <<fn, solver, epsilon, has_logger, pc, state, loc, raised, hist>>
    /\ UNCHANGED settings
    /\ UNCHANGED extra

\* A call of the member function.
FunctionGradAccuracyCall(x) ==
    /\ fcalls < MaxEvals
    /\ Len(x) = FunctionSize(fn)
    /\ ret' = FunctionGradAccuracy(fn, x)
    /\ fcalls' = fcalls + 1 + 2 * Len(x)
    /\ gcalls' = gcalls + 1
    /\ last' = [op |-> "function_grad_accuracy", arg |-> <<x>>]
    /\ UNCHANGED <<fn, solver, epsilon, has_logger, pc, state, loc, raised, hist>>
    /\ UNCHANGED settings
    /\ UNCHANGED extra

InitAccuracy ==
    /\ \E f \in AccuracyFunctions : IdleSolver(f, MakeState("sphere", 0))
    /\ InitExtra

NextAccuracy ==
    \/ \E x \in AccuracyPoints, desired \in DesiredAccuracies : GradAccuracyCall(x, desired)
    \/ \E x \in AccuracyPoints : FunctionGradAccuracyCall(x)

\* Checks of the gradient of a function of two dimensions.
SpecAccuracy == InitAccuracy /\ [][NextAccuracy]_vars

\* The candidates of a call: the discrepancy of every step tried, normalized
\* once, in the order of the steps.
AccuracyTried == last.op \in {"grad_accuracy", "function_grad_accuracy"}

AccuracyCandidates ==
    IF last.op = "grad_accuracy"
    THEN [k \in 1..ret.tried |->
             Discrepancy(fn, last.arg[1], AccuracySteps[k]) \div Normalizer(fn, last.arg[1])]
    ELSE <<Discrepancy(fn, last.arg[1], Epsilon2) \div Normalizer(fn, last.arg[1])>>

\* The step dx of the k-th pass of the call.
AccuracyDx(k) == IF last.op = "grad_accuracy" THEN AccuracySteps[k] ELSE Epsilon2

\* The value returned is the smallest of the candidates.
ReturnsSmallest ==
    /\ \E k \in 1..ret.tried : ret.dg = AccuracyCandidates[k]
    /\ \A k \in 1..ret.tried : ret.dg <= AccuracyCandidates[k]

\* Every central difference perturbs coordinate i alone, by dx * max(1, |x_i|).
PerturbsOneCoordinate ==
    \A k \in 1..ret.tried : \A i \in 1..Len(last.arg[1]) :
        /\ ret.points[k][i].xp =
              [last.arg[1] EXCEPT ![i] = @ + AccuracyDx(k) * StdMax(1, Abs(@))]
        /\ ret.points[k][i].xn =
              [last.arg[1] EXCEPT ![i] = @ - AccuracyDx(k) * StdMax(1, Abs(@))]

\* Both grad_accuracy functions perturb one coordinate at a time, and the
\* member function, which tries one step, returns its normalized discrepancy.
AccuracyOfOneStep ==
    AccuracyTried =>
        /\ PerturbsOneCoordinate
        /\ ret.tried = 1 => ReturnsSmallest

\* C30: grad_accuracy(function, x) returns the smallest, over the step sizes
\* it tried, of the normalized discrepancy ||g - g_approx||inf / (1 + |f(x)|),
\* each candidate normalized exactly once, and each central difference
\* perturbs the single coordinate i by dx * max(1, |x_i|), all the other
\* coordinates being those of x.
C30_SmallestNormalized ==
    last.op = "grad_accuracy" => (ReturnsSmallest /\ PerturbsOneCoordinate)

\* A call that tried every step at a point of value 8 and returned less than
\* every one of its candidates.
C30_NormalizedAgain ==
    /\ last.op = "grad_accuracy"
    /\ ret.tried = Len(AccuracySteps)
    /\ Normalizer(fn, last.arg[1]) > 1
    /\ PerturbsOneCoordinate
    /\ \A k \in 1..ret.tried : ret.dg < AccuracyCandidates[k]

====
